---- MODULE Spec2Model ----
(***************************************************************************)
(* Board representation, move generator and make/unmake loop of the Gambit *)
(* chess engine.                                                           *)
(*                                                                         *)
(* A Bitboard (a u64) is modelled as the set of its set bits, i.e. a set   *)
(* of squares 0..63; |, & and ^ are union, intersection and symmetric      *)
(* difference, << and >> translate the squares and drop what leaves 0..63. *)
(* A Zobrist random is modelled as a generator of a vector space over      *)
(* GF(2): a key is the set of generators with an odd number of occurrences *)
(* and ^ is symmetric difference, so two keys that are equal here are      *)
(* equal for every choice of the 64-bit randoms.                           *)
(***************************************************************************)
EXTENDS Integers, Sequences, FiniteSets, TLC

VARIABLES piece_bitboards, side_bitboards, piece_list, state, history,
          crashed, last, shadow, pf, unit

vars == <<piece_bitboards, side_bitboards, piece_list, state, history,
          crashed, last, shadow, pf, unit>>

(***************************************************************************)
(* Bounds                                                                  *)
(***************************************************************************)
MaxPly == 2

(***************************************************************************)
(* Sides, pieces, castling permissions                                     *)
(***************************************************************************)
WHITE == 0
BLACK == 1
Sides_ALL == {WHITE, BLACK}

PAWN == 0
KNIGHT == 1
BISHOP == 2
ROOK == 3
QUEEN == 4
KING == 5
Pieces_NONE == 6
Pieces_ALL == {PAWN, KNIGHT, BISHOP, ROOK, QUEEN, KING}
\* variant: the promotion pieces listed from the strongest down
PROMOTION_TARGETS_queen_first == <<QUEEN, ROOK, BISHOP, KNIGHT>>

PROMOTION_TARGETS == <<KNIGHT, BISHOP, ROOK, QUEEN>>

WHITE_KING == 1
WHITE_QUEEN == 2
BLACK_KING == 4
BLACK_QUEEN == 8
CastlingPermissions_ALL == 15
CastlingPermissions_NONE == 0

(***************************************************************************)
(* Squares, files, ranks, directions                                       *)
(***************************************************************************)
Squares_ALL == 0..63
Squares_COUNT == 64
\* Option<Square>::None
None == -1

A1 == 0
B1 == 1
C1 == 2
D1 == 3
E1 == 4
F1 == 5
G1 == 6
H1 == 7
E2 == 12
E4 == 28
A8 == 56
B8 == 57
C8 == 58
D8 == 59
E8 == 60
F8 == 61
G8 == 62
H8 == 63

Files_A == 0
Files_B == 1
Files_G == 6
Files_H == 7
R1 == 0
R2 == 1
R3 == 2
R4 == 3
R5 == 4
R6 == 5
R7 == 6
R8 == 7

NORTH == 8
NORTH_EAST == 9
EAST == 1
SOUTH_EAST == -7
SOUTH == -8
SOUTH_WEST == -9
WEST == -1
NORTH_WEST == 7
Directions_ALL == {NORTH, NORTH_EAST, EAST, SOUTH_EAST, SOUTH, SOUTH_WEST, WEST, NORTH_WEST}

LONG_NORTH_WEST == 15
SHORT_NORTH_WEST == 6
LONG_NORTH_EAST == 17
SHORT_NORTH_EAST == 10
LONG_SOUTH_WEST == -17
SHORT_SOUTH_WEST == -10
LONG_SOUTH_EAST == -15
SHORT_SOUTH_EAST == -6
KnightJumps_ALL == {LONG_NORTH_WEST, SHORT_NORTH_WEST, LONG_NORTH_EAST, SHORT_NORTH_EAST,
                    LONG_SOUTH_WEST, SHORT_SOUTH_WEST, LONG_SOUTH_EAST, SHORT_SOUTH_EAST}

get_rank(square) == square \div 8
get_file(square) == square % 8
translate(square, direction) == square + direction

AbsDiff(a, b) == IF a > b THEN a - b ELSE b - a

distance(lhs, rhs) ==
    LET file_distance == AbsDiff(get_file(lhs), get_file(rhs))
        rank_distance == AbsDiff(get_rank(lhs), get_rank(rhs))
    IN IF file_distance > rank_distance THEN file_distance ELSE rank_distance

\* variant: the white double-step rank for both sides
get_fourth_rank_white_only(side) == R4

get_fourth_rank(side) == IF side = WHITE THEN R4 ELSE R5
get_promotion_rank(side) == IF side = WHITE THEN R8 ELSE R1

(***************************************************************************)
(* Bitboards                                                               *)
(***************************************************************************)
EMPTY == {}

BitXor(a, b) == (a \ b) \cup (b \ a)
Shl(bb, n) == {s + n : s \in {t \in bb : t + n <= 63}}
Shr(bb, n) == {s - n : s \in {t \in bb : t - n >= 0}}
rotate_left(bb, n) == {(s + n) % 64 : s \in bb}

Bitboard_from_square(square) == {square}
Bitboard_from_file(file) == {s \in Squares_ALL : s % 8 = file}
Bitboard_from_rank(rank) == {s \in Squares_ALL : s \div 8 = rank}

SQUARE_BITBOARDS == [square \in Squares_ALL |-> Bitboard_from_square(square)]
FILE_BITBOARDS == [file \in 0..7 |-> Bitboard_from_file(file)]
RANK_BITBOARDS == [rank \in 0..7 |-> Bitboard_from_rank(rank)]

\* u64::trailing_zeros: the lowest set bit, 64 for the empty board
trailing_zeros(bb) == IF bb = {} THEN 64 ELSE CHOOSE s \in bb : \A t \in bb : s <= t

(***************************************************************************)
(* Move encoding                                                           *)
(***************************************************************************)
Shift_PIECE == 0
Shift_FROM == 3
Shift_TO == 9
Shift_CAPTURE == 15
Shift_PROMOTION == 18
Shift_EN_PASSANT == 21
Shift_DOUBLE_STEP == 23
Shift_CASTLING == 24

Move_NULL == Pieces_NONE

Move_piece(m) == (m \div (2 ^ Shift_PIECE)) % 8
Move_from(m) == (m \div (2 ^ Shift_FROM)) % 64
Move_to(m) == (m \div (2 ^ Shift_TO)) % 64
Move_capture(m) == (m \div (2 ^ Shift_CAPTURE)) % 8
Move_promotion(m) == (m \div (2 ^ Shift_PROMOTION)) % 8
Move_en_passant(m) == (m \div (2 ^ Shift_EN_PASSANT)) % 2 = 1
Move_double_step(m) == (m \div (2 ^ Shift_DOUBLE_STEP)) % 2 = 1
Move_castling(m) == (m \div (2 ^ Shift_CASTLING)) % 2 = 1

\* The builder ORs each field into bits that are still zero (every setter is
\* called at most once by add_move_to_list), so each |= is an addition.
MoveBuilder_piece(piece) == [data |-> piece, has_called_capture |-> FALSE, has_called_promotion |-> FALSE]
MoveBuilder_from(mb, square) == [mb EXCEPT !.data = @ + square * (2 ^ Shift_FROM)]
MoveBuilder_to(mb, square) == [mb EXCEPT !.data = @ + square * (2 ^ Shift_TO)]
MoveBuilder_capture(mb, piece) ==
    [mb EXCEPT !.data = @ + piece * (2 ^ Shift_CAPTURE), !.has_called_capture = TRUE]
MoveBuilder_promotion(mb, piece) ==
    [mb EXCEPT !.data = @ + piece * (2 ^ Shift_PROMOTION), !.has_called_promotion = TRUE]
MoveBuilder_en_passant(mb) == [mb EXCEPT !.data = @ + 2 ^ Shift_EN_PASSANT]
MoveBuilder_double_step(mb) == [mb EXCEPT !.data = @ + 2 ^ Shift_DOUBLE_STEP]
MoveBuilder_castling(mb) == [mb EXCEPT !.data = @ + 2 ^ Shift_CASTLING]
MoveBuilder_to_move(mb) ==
    mb.data
    + (IF mb.has_called_capture THEN 0 ELSE Pieces_NONE * (2 ^ Shift_CAPTURE))
    + (IF mb.has_called_promotion THEN 0 ELSE Pieces_NONE * (2 ^ Shift_PROMOTION))

(***************************************************************************)
(* Leaping-piece tables (movegen/init.rs)                                  *)
(***************************************************************************)
KingSkips(rank, file, direction) ==
    \/ (rank = R1 /\ direction \in {SOUTH, SOUTH_EAST, SOUTH_WEST})
    \/ (rank = R8 /\ direction \in {NORTH, NORTH_EAST, NORTH_WEST})
    \/ (file = Files_A /\ direction \in {WEST, NORTH_WEST, SOUTH_WEST})
    \/ (file = Files_H /\ direction \in {EAST, NORTH_EAST, SOUTH_EAST})

init_king_moves ==
    [square \in Squares_ALL |->
        {translate(square, direction) :
            direction \in {d \in Directions_ALL :
                /\ ~KingSkips(get_rank(square), get_file(square), d)
                /\ distance(square, translate(square, d)) = 1}}]

KnightSkips(rank, file, direction) ==
    \/ (rank = R1 /\ direction \in {LONG_SOUTH_EAST, LONG_SOUTH_WEST, SHORT_SOUTH_EAST, SHORT_SOUTH_WEST})
    \/ (rank = R2 /\ direction \in {LONG_SOUTH_EAST, LONG_SOUTH_WEST})
    \/ (rank = R8 /\ direction \in {LONG_NORTH_EAST, LONG_NORTH_WEST, SHORT_NORTH_EAST, SHORT_NORTH_WEST})
    \/ (rank = R7 /\ direction \in {LONG_NORTH_EAST, LONG_NORTH_WEST})
    \/ (file = Files_A /\ direction \in {LONG_NORTH_WEST, LONG_SOUTH_WEST, SHORT_NORTH_WEST, SHORT_SOUTH_WEST})
    \/ (file = Files_B /\ direction \in {SHORT_NORTH_WEST, SHORT_SOUTH_WEST})
    \/ (file = Files_H /\ direction \in {LONG_NORTH_EAST, LONG_SOUTH_EAST, SHORT_NORTH_EAST, SHORT_SOUTH_EAST})
    \/ (file = Files_G /\ direction \in {SHORT_NORTH_EAST, SHORT_SOUTH_EAST})

init_knight_moves ==
    [square \in Squares_ALL |->
        {translate(square, direction) :
            direction \in {d \in KnightJumps_ALL :
                /\ ~KnightSkips(get_rank(square), get_file(square), d)
                /\ distance(square, translate(square, d)) = 2}}]

init_pawn_captures ==
    [side \in Sides_ALL |->
        [square \in Squares_ALL |->
            LET square_bitboard == SQUARE_BITBOARDS[square]
                white_moves == Shl(square_bitboard \ FILE_BITBOARDS[Files_A], 7)
                               \cup Shl(square_bitboard \ FILE_BITBOARDS[Files_H], 9)
                black_moves == Shr(square_bitboard \ FILE_BITBOARDS[Files_A], 9)
                               \cup Shr(square_bitboard \ FILE_BITBOARDS[Files_H], 7)
            IN IF side = WHITE THEN white_moves ELSE black_moves]]

KING_MOVES == init_king_moves
KNIGHT_MOVES == init_knight_moves
PAWN_CAPTURES == init_pawn_captures

(***************************************************************************)
(* Sliding pieces: rays, relevant-occupancy masks, magic tables            *)
(***************************************************************************)
\* The edge test that ends the loop of cast_ray for each direction
RayAtEdge(direction, rank, file) ==
    CASE direction = NORTH -> rank = R8
      [] direction = NORTH_EAST -> rank = R8 \/ file = Files_H
      [] direction = EAST -> file = Files_H
      [] direction = SOUTH_EAST -> rank = R1 \/ file = Files_H
      [] direction = SOUTH -> rank = R1
      [] direction = SOUTH_WEST -> rank = R1 \/ file = Files_A
      [] direction = WEST -> file = Files_A
      [] direction = NORTH_WEST -> rank = R8 \/ file = Files_A

\* variant: the ray runs through the blockers to the edge
RECURSIVE cast_ray_loop_through(_, _, _, _)
cast_ray_loop_through(direction, bitboard, square, ray) ==
    IF RayAtEdge(direction, get_rank(square), get_file(square))
    THEN ray
    ELSE cast_ray_loop_through(direction, bitboard, square + direction,
                               ray \cup {square + direction})

RECURSIVE cast_ray_loop(_, _, _, _)
cast_ray_loop(direction, bitboard, square, ray) ==
    IF RayAtEdge(direction, get_rank(square), get_file(square))
    THEN ray
    ELSE LET next == square + direction
         IN IF next \in bitboard
            THEN ray \cup {next}
            ELSE cast_ray_loop(direction, bitboard, next, ray \cup {next})

cast_ray(direction, bitboard, square) == cast_ray_loop(direction, bitboard, square, {})

edge_mask(square) ==
    LET rank_bitboard == RANK_BITBOARDS[get_rank(square)]
        file_bitboard == FILE_BITBOARDS[get_file(square)]
    IN (FILE_BITBOARDS[Files_A] \ file_bitboard)
       \cup (FILE_BITBOARDS[Files_H] \ file_bitboard)
       \cup (RANK_BITBOARDS[R1] \ rank_bitboard)
       \cup (RANK_BITBOARDS[R8] \ rank_bitboard)

init_rook_mask ==
    [square \in Squares_ALL |->
        ((RANK_BITBOARDS[get_rank(square)] \cup FILE_BITBOARDS[get_file(square)])
            \ edge_mask(square)) \ SQUARE_BITBOARDS[square]]

init_bishop_mask ==
    [square \in Squares_ALL |->
        (cast_ray(NORTH_WEST, EMPTY, square) \cup cast_ray(NORTH_EAST, EMPTY, square)
            \cup cast_ray(SOUTH_EAST, EMPTY, square) \cup cast_ray(SOUTH_WEST, EMPTY, square))
        \ edge_mask(square)]

ROOK_MASK == init_rook_mask
BISHOP_MASK == init_bishop_mask

\* The attack board init_magics stores for one blocker board of a square
rook_attack_board(blocker_board, square) ==
    cast_ray(NORTH, blocker_board, square) \cup cast_ray(EAST, blocker_board, square)
    \cup cast_ray(SOUTH, blocker_board, square) \cup cast_ray(WEST, blocker_board, square)

bishop_attack_board(blocker_board, square) ==
    cast_ray(NORTH_EAST, blocker_board, square) \cup cast_ray(SOUTH_EAST, blocker_board, square)
    \cup cast_ray(SOUTH_WEST, blocker_board, square) \cup cast_ray(NORTH_WEST, blocker_board, square)

\* Magic::get_index: a perfect hash of (square, occupancy & mask); the table
\* slot is named by the pair it hashes.
Magic_get_index(square, mask, occupancy) == <<square, occupancy \cap mask>>

get_rook_moves(square, occupancy) ==
    LET index == Magic_get_index(square, ROOK_MASK[square], occupancy)
    IN rook_attack_board(index[2], index[1])

get_bishop_moves(square, occupancy) ==
    LET index == Magic_get_index(square, BISHOP_MASK[square], occupancy)
    IN bishop_attack_board(index[2], index[1])

get_queen_moves(square, occupancy) ==
    BitXor(get_rook_moves(square, occupancy), get_bishop_moves(square, occupancy))

(***************************************************************************)
(* Zobrist randoms (board/zobrist.rs), as generators over GF(2)            *)
(***************************************************************************)
ZOBRIST_PIECES(index, square) == {index * 64 + square}
ZOBRIST_EN_PASSANT_len == 64
\* absence of an en-passant square (index len) is the XOR identity
ZOBRIST_EN_PASSANT(index) == IF index = ZOBRIST_EN_PASSANT_len THEN {} ELSE {1000 + index}
ZOBRIST_CASTLING(availability) == {2000 + availability}
ZOBRIST_SIDE == {3000}

get_zobrist_key(bitboards, side_to_move, castling_availability, en_passant_square) ==
    LET pieces == UNION {UNION {UNION {ZOBRIST_PIECES(piece + (IF side = BLACK THEN 6 ELSE 0), square) :
                                    square \in bitboards[side][piece]} :
                             piece \in Pieces_ALL} :
                      side \in Sides_ALL}
        side_key == IF side_to_move = BLACK THEN ZOBRIST_SIDE ELSE {}
        ep_key == IF en_passant_square = None THEN {} ELSE ZOBRIST_EN_PASSANT(en_passant_square)
    IN BitXor(BitXor(BitXor(pieces, side_key), ZOBRIST_CASTLING(castling_availability)), ep_key)

(***************************************************************************)
(* Castling permissions                                                    *)
(***************************************************************************)
\* bitwise & and | of two 4-bit values
And4(a, b) ==
    LET bit(x, k) == (x \div k) % 2
    IN bit(a, 1) * bit(b, 1) + 2 * (bit(a, 2) * bit(b, 2))
       + 4 * (bit(a, 4) * bit(b, 4)) + 8 * (bit(a, 8) * bit(b, 8))

\* variant: the H1 and H8 entries keep every right
PER_SQUARE_corners_kept ==
    [square \in Squares_ALL |->
        CASE square = A1 -> CastlingPermissions_ALL - WHITE_QUEEN
          [] square = E1 -> CastlingPermissions_ALL - WHITE_KING - WHITE_QUEEN
          [] square = A8 -> CastlingPermissions_ALL - BLACK_QUEEN
          [] square = E8 -> CastlingPermissions_ALL - BLACK_KING - BLACK_QUEEN
          [] OTHER -> CastlingPermissions_ALL]

PER_SQUARE ==
    [square \in Squares_ALL |->
        CASE square = A1 -> CastlingPermissions_ALL - WHITE_QUEEN
          [] square = E1 -> CastlingPermissions_ALL - WHITE_KING - WHITE_QUEEN
          [] square = H1 -> CastlingPermissions_ALL - WHITE_KING
          [] square = A8 -> CastlingPermissions_ALL - BLACK_QUEEN
          [] square = E8 -> CastlingPermissions_ALL - BLACK_KING - BLACK_QUEEN
          [] square = H8 -> CastlingPermissions_ALL - BLACK_KING
          [] OTHER -> CastlingPermissions_ALL]

(***************************************************************************)
(* Board (board.rs).  A board value is the record of the Board's fields.   *)
(***************************************************************************)
occupancy(b) == b.side_bitboards[WHITE] \cup b.side_bitboards[BLACK]

\* variant: the piece list is not written
put_piece_no_list(b, UPDATE_ZOBRIST, side, piece, square) ==
    LET offset == IF side = BLACK THEN 6 ELSE 0
    IN [b EXCEPT !.piece_bitboards[side][piece] = @ \cup SQUARE_BITBOARDS[square],
                 !.side_bitboards[side] = @ \cup SQUARE_BITBOARDS[square],
                 !.state.zobrist_key = IF UPDATE_ZOBRIST
                                       THEN BitXor(@, ZOBRIST_PIECES(piece + offset, square))
                                       ELSE @]

put_piece(b, UPDATE_ZOBRIST, side, piece, square) ==
    LET offset == IF side = BLACK THEN 6 ELSE 0
    IN [b EXCEPT !.piece_bitboards[side][piece] = @ \cup SQUARE_BITBOARDS[square],
                 !.side_bitboards[side] = @ \cup SQUARE_BITBOARDS[square],
                 !.piece_list[square] = piece,
                 !.state.zobrist_key = IF UPDATE_ZOBRIST
                                       THEN BitXor(@, ZOBRIST_PIECES(piece + offset, square))
                                       ELSE @]

\* variant: the side bitboard is not toggled
remove_piece_no_side(b, UPDATE_ZOBRIST, side, piece, square) ==
    LET offset == IF side = BLACK THEN 6 ELSE 0
    IN [b EXCEPT !.piece_bitboards[side][piece] = BitXor(@, SQUARE_BITBOARDS[square]),
                 !.piece_list[square] = Pieces_NONE,
                 !.state.zobrist_key = IF UPDATE_ZOBRIST
                                       THEN BitXor(@, ZOBRIST_PIECES(piece + offset, square))
                                       ELSE @]

remove_piece(b, UPDATE_ZOBRIST, side, piece, square) ==
    LET offset == IF side = BLACK THEN 6 ELSE 0
    IN [b EXCEPT !.piece_bitboards[side][piece] = BitXor(@, SQUARE_BITBOARDS[square]),
                 !.side_bitboards[side] = BitXor(@, SQUARE_BITBOARDS[square]),
                 !.piece_list[square] = Pieces_NONE,
                 !.state.zobrist_key = IF UPDATE_ZOBRIST
                                       THEN BitXor(@, ZOBRIST_PIECES(piece + offset, square))
                                       ELSE @]

move_piece(b, UPDATE_ZOBRIST, side, piece, from, to) ==
    put_piece(remove_piece(b, UPDATE_ZOBRIST, side, piece, from), UPDATE_ZOBRIST, side, piece, to)

(***************************************************************************)
(* Move generator (movegen.rs)                                             *)
(***************************************************************************)
\* variant: rook attacks are not looked at
is_square_attacked_no_rook(b, attacker, square) ==
    LET occ == occupancy(b)
        attackers == b.piece_bitboards[attacker]
        king_moves == KING_MOVES[square]
        knight_moves == KNIGHT_MOVES[square]
        pawn_moves == PAWN_CAPTURES[1 - attacker][square]
        rook_moves == get_rook_moves(square, occ)
        bishop_moves == get_bishop_moves(square, occ)
        queen_moves == BitXor(rook_moves, bishop_moves)
    IN \/ (king_moves \cap attackers[KING]) # {}
       \/ (knight_moves \cap attackers[KNIGHT]) # {}
       \/ (pawn_moves \cap attackers[PAWN]) # {}
       \/ (bishop_moves \cap attackers[BISHOP]) # {}
       \/ (queen_moves \cap attackers[QUEEN]) # {}

\* variant: the pawn table of the attacker's own colour
is_square_attacked_own_pawn_table(b, attacker, square) ==
    LET occ == occupancy(b)
        attackers == b.piece_bitboards[attacker]
        rook_moves == get_rook_moves(square, occ)
        bishop_moves == get_bishop_moves(square, occ)
    IN \/ (KING_MOVES[square] \cap attackers[KING]) # {}
       \/ (KNIGHT_MOVES[square] \cap attackers[KNIGHT]) # {}
       \/ (PAWN_CAPTURES[attacker][square] \cap attackers[PAWN]) # {}
       \/ (rook_moves \cap attackers[ROOK]) # {}
       \/ (bishop_moves \cap attackers[BISHOP]) # {}
       \/ (BitXor(rook_moves, bishop_moves) \cap attackers[QUEEN]) # {}

is_square_attacked(b, attacker, square) ==
    LET occ == occupancy(b)
        attackers == b.piece_bitboards[attacker]
        king_moves == KING_MOVES[square]
        knight_moves == KNIGHT_MOVES[square]
        pawn_moves == PAWN_CAPTURES[1 - attacker][square]
        rook_moves == get_rook_moves(square, occ)
        bishop_moves == get_bishop_moves(square, occ)
        queen_moves == BitXor(rook_moves, bishop_moves)
    IN \/ (king_moves \cap attackers[KING]) # {}
       \/ (knight_moves \cap attackers[KNIGHT]) # {}
       \/ (pawn_moves \cap attackers[PAWN]) # {}
       \/ (rook_moves \cap attackers[ROOK]) # {}
       \/ (bishop_moves \cap attackers[BISHOP]) # {}
       \/ (queen_moves \cap attackers[QUEEN]) # {}

RECURSIVE add_move_to_list(_, _, _, _)
add_move_to_list(PIECE_TYPE, b, from, to) ==
    IF to = {} THEN <<>>
    ELSE
      LET to_square == trailing_zeros(to)
          is_pawn == PIECE_TYPE = PAWN
          promotion_rank == get_promotion_rank(b.state.side_to_move)
          capture == b.piece_list[to_square]
          en_passant == /\ b.state.en_passant_square # None
                        /\ is_pawn
                        /\ b.state.en_passant_square = to_square
          promotion == is_pawn /\ get_rank(to_square) = promotion_rank
          double_step == is_pawn /\ AbsDiff(to_square, from) = 16
          castling == PIECE_TYPE = KING /\ AbsDiff(to_square, from) = 2
          m0 == MoveBuilder_capture(
                    MoveBuilder_to(MoveBuilder_from(MoveBuilder_piece(PIECE_TYPE), from), to_square),
                    capture)
          m1 == IF en_passant THEN MoveBuilder_en_passant(m0) ELSE m0
          m2 == IF double_step THEN MoveBuilder_double_step(m1) ELSE m1
          m3 == IF castling THEN MoveBuilder_castling(m2) ELSE m2
          pushed == IF ~promotion
                    THEN <<MoveBuilder_to_move(m3)>>
                    ELSE [i \in 1..Len(PROMOTION_TARGETS) |->
                            MoveBuilder_to_move(MoveBuilder_promotion(m3, PROMOTION_TARGETS[i]))]
      IN pushed \o add_move_to_list(PIECE_TYPE, b, from, BitXor(to, SQUARE_BITBOARDS[to_square]))

RECURSIVE piece_moves_loop(_, _, _)
piece_moves_loop(PIECE_TYPE, b, pieces) ==
    IF pieces = {} THEN <<>>
    ELSE
      LET us == b.state.side_to_move
          occ == occupancy(b)
          from_square == trailing_zeros(pieces)
          table == CASE PIECE_TYPE = KING -> KING_MOVES[from_square]
                     [] PIECE_TYPE = KNIGHT -> KNIGHT_MOVES[from_square]
                     [] PIECE_TYPE = ROOK -> get_rook_moves(from_square, occ)
                     [] PIECE_TYPE = BISHOP -> get_bishop_moves(from_square, occ)
                     [] PIECE_TYPE = QUEEN -> get_queen_moves(from_square, occ)
          to_bitboard == table \ b.side_bitboards[us]
      IN add_move_to_list(PIECE_TYPE, b, from_square, to_bitboard)
         \o piece_moves_loop(PIECE_TYPE, b, BitXor(pieces, SQUARE_BITBOARDS[from_square]))

generate_moves_for_piece(PIECE_TYPE, b) ==
    piece_moves_loop(PIECE_TYPE, b, b.piece_bitboards[b.state.side_to_move][PIECE_TYPE])

RECURSIVE pawn_moves_loop(_, _)
pawn_moves_loop(b, pawns) ==
    IF pawns = {} THEN <<>>
    ELSE
      LET us == b.state.side_to_move
          opponent == 1 - us
          opponent_pieces == b.side_bitboards[opponent]
          empty_squares == Squares_ALL \ occupancy(b)
          fourth_rank == RANK_BITBOARDS[get_fourth_rank(us)]
          direction == IF us = WHITE THEN NORTH ELSE SOUTH
          rotation_count == Squares_COUNT + direction
          from_square == trailing_zeros(pawns)
          to == translate(from_square, direction)
          one_step == SQUARE_BITBOARDS[to] \cap empty_squares
          two_steps == (rotate_left(one_step, rotation_count) \cap empty_squares) \cap fourth_rank
          targets == PAWN_CAPTURES[us][from_square]
          captures == targets \cap opponent_pieces
          en_passant_capture == IF b.state.en_passant_square # None
                                THEN targets \cap SQUARE_BITBOARDS[b.state.en_passant_square]
                                ELSE EMPTY
          moves == one_step \cup two_steps \cup captures \cup en_passant_capture
      IN add_move_to_list(PAWN, b, from_square, moves)
         \o pawn_moves_loop(b, BitXor(pawns, SQUARE_BITBOARDS[from_square]))

generate_moves_for_pawns(b) ==
    pawn_moves_loop(b, b.piece_bitboards[b.state.side_to_move][PAWN])

\* variant: the square the king passes over is not tested
castling_branch_no_transit(b, from, permission, blockers, origin, transit, kingside) ==
    LET opponent == 1 - b.state.side_to_move
        is_blocked == (occupancy(b) \cap blockers) # {}
    IN IF And4(b.state.castling_availability, permission) > 0
       THEN IF /\ ~is_blocked
               /\ ~is_square_attacked(b, opponent, origin)
            THEN add_move_to_list(KING, b, from,
                    IF kingside THEN Shl(SQUARE_BITBOARDS[from], 2)
                                ELSE Shr(SQUARE_BITBOARDS[from], 2))
            ELSE <<>>
       ELSE <<>>

\* One of the four branches of generate_castling_moves
castling_branch(b, from, permission, blockers, origin, transit, kingside) ==
    LET opponent == 1 - b.state.side_to_move
        is_blocked == (occupancy(b) \cap blockers) # {}
    IN IF And4(b.state.castling_availability, permission) > 0
       THEN IF /\ ~is_blocked
               /\ ~is_square_attacked(b, opponent, origin)
               /\ ~is_square_attacked(b, opponent, transit)
            THEN add_move_to_list(KING, b, from,
                    IF kingside THEN Shl(SQUARE_BITBOARDS[from], 2)
                                ELSE Shr(SQUARE_BITBOARDS[from], 2))
            ELSE <<>>
       ELSE <<>>

generate_castling_moves(b) ==
    LET us == b.state.side_to_move
        from == trailing_zeros(b.piece_bitboards[us][KING])
    IN IF us = WHITE
       THEN castling_branch(b, from, WHITE_KING, {F1, G1}, E1, F1, TRUE)
            \o castling_branch(b, from, WHITE_QUEEN, {B1, C1, D1}, E1, D1, FALSE)
       ELSE castling_branch(b, from, BLACK_KING, {F8, G8}, E8, F8, TRUE)
            \o castling_branch(b, from, BLACK_QUEEN, {B8, C8, D8}, E8, D8, FALSE)

generate_moves(b) ==
    generate_moves_for_piece(KING, b)
    \o generate_moves_for_piece(KNIGHT, b)
    \o generate_moves_for_piece(ROOK, b)
    \o generate_moves_for_piece(BISHOP, b)
    \o generate_moves_for_piece(QUEEN, b)
    \o generate_moves_for_pawns(b)
    \o generate_castling_moves(b)

(***************************************************************************)
(* make_move / unmake_move (board.rs)                                      *)
(***************************************************************************)
\* square ^ 8
Xor8(square) == IF (square \div 8) % 2 = 1 THEN square - 8 ELSE square + 8

\* variant: the key of the new rights is not folded in
update_castling_half_key(b, square) ==
    LET old == b.state.castling_availability
        new == And4(old, PER_SQUARE[square])
    IN [b EXCEPT !.state.zobrist_key = BitXor(@, ZOBRIST_CASTLING(old)),
                 !.state.castling_availability = new]

\* the three statements that clear castling rights through PER_SQUARE
update_castling(b, square) ==
    LET old == b.state.castling_availability
        new == And4(old, PER_SQUARE[square])
    IN [b EXCEPT !.state.zobrist_key = BitXor(BitXor(@, ZOBRIST_CASTLING(old)), ZOBRIST_CASTLING(new)),
                 !.state.castling_availability = new]

\* variant: the oldest entry is taken instead of the newest
history_pop_oldest(b) ==
    [b EXCEPT !.state = b.history[1], !.history = Tail(@)]

\* self.state = self.history.pop().unwrap()
history_pop(b) ==
    [b EXCEPT !.state = b.history[Len(b.history)], !.history = SubSeq(@, 1, Len(@) - 1)]

\* variant: the state is saved after the half-move clock was advanced
history_push_late(b, m) ==
    [b EXCEPT !.history = Append(@, [b.state EXCEPT !.next_move = m,
                                                     !.half_move_clock = (@ + 1) % 256])]

\* current_game_state.next_move = m; self.history.push(current_game_state)
history_push(b, m) ==
    LET current_game_state == [b.state EXCEPT !.next_move = m]
    IN [b EXCEPT !.history = Append(@, current_game_state)]

\* if promotion == NONE { move_piece(to, from) } else { remove promoted; put pawn }
undo_mover(b, us, piece, promotion, from, to) ==
    IF promotion = Pieces_NONE
    THEN move_piece(b, FALSE, us, piece, to, from)
    ELSE put_piece(remove_piece(b, FALSE, us, promotion, to), FALSE, us, PAWN, from)

\* if castling { match to { .. } }
undo_castling_rook(b, us, castling, to) ==
    IF castling
    THEN CASE to = G1 -> move_piece(b, FALSE, us, ROOK, F1, H1)
           [] to = C1 -> move_piece(b, FALSE, us, ROOK, D1, A1)
           [] to = G8 -> move_piece(b, FALSE, us, ROOK, F8, H8)
           [] to = C8 -> move_piece(b, FALSE, us, ROOK, D8, A8)
    ELSE b

\* variant: a captured piece is not put back
restore_capture_skipped(b, opponent, capture, to) == b

\* if capture != NONE { put_piece(opponent, capture, to) }
restore_capture(b, opponent, capture, to) ==
    IF capture # Pieces_NONE THEN put_piece(b, FALSE, opponent, capture, to) ELSE b

\* if en_passant { put_piece(opponent, PAWN, to ^ 8) }
restore_en_passant(b, opponent, en_passant, to) ==
    IF en_passant THEN put_piece(b, FALSE, opponent, PAWN, Xor8(to)) ELSE b

\* unmake_move after the pop: the popped state names the move and the mover
undo_popped(b) ==
    LET m == b.state.next_move
        us == b.state.side_to_move
        opponent == 1 - us
        to == Move_to(m)
    IN restore_en_passant(
         restore_capture(
           undo_castling_rook(
             undo_mover(b, us, Move_piece(m), Move_promotion(m), Move_from(m), to),
             us, Move_castling(m), to),
           opponent, Move_capture(m), to),
         opponent, Move_en_passant(m), to)

unmake_move(b) == undo_popped(history_pop(b))

\* self.state.half_move_clock += 1 (u8)
advance_clock(b) == [b EXCEPT !.state.half_move_clock = (@ + 1) % 256]

\* variant: the en-passant square of the position before is kept
clear_en_passant_kept(b) == b

\* if let Some(square) = self.state.en_passant_square { .. }
clear_en_passant(b) ==
    IF b.state.en_passant_square # None
    THEN [b EXCEPT !.state.zobrist_key =
                      BitXor(BitXor(@, ZOBRIST_EN_PASSANT(b.state.en_passant_square)),
                             ZOBRIST_EN_PASSANT(ZOBRIST_EN_PASSANT_len)),
                   !.state.en_passant_square = None]
    ELSE b

\* variant: the capture of a rook leaves the castling rights alone
capture_rights_kept(b, capture, to, has_castling_permissions) == b

\* if capture == ROOK && has_castling_permissions { .. PER_SQUARE[to] .. }
capture_rights(b, capture, to, has_castling_permissions) ==
    IF capture = ROOK /\ has_castling_permissions THEN update_castling(b, to) ELSE b

\* if is_capture { remove_piece(opponent, capture, to); half_move_clock = 0; .. }
capture_piece(b, opponent, capture, to, has_castling_permissions) ==
    IF capture # Pieces_NONE
    THEN capture_rights([remove_piece(b, TRUE, opponent, capture, to)
                            EXCEPT !.state.half_move_clock = 0],
                        capture, to, has_castling_permissions)
    ELSE b

\* if en_passant { remove_piece(opponent, PAWN, to ^ 8) }
remove_en_passant_victim(b, opponent, en_passant, to) ==
    IF en_passant THEN remove_piece(b, TRUE, opponent, PAWN, Xor8(to)) ELSE b

\* variant: the destination itself is stored as the en-passant square
set_en_passant_at_to(b, double_step, to) ==
    IF double_step
    THEN [b EXCEPT !.state.zobrist_key =
                      BitXor(BitXor(@, ZOBRIST_EN_PASSANT(
                                          IF b.state.en_passant_square # None
                                          THEN b.state.en_passant_square
                                          ELSE ZOBRIST_EN_PASSANT_len)),
                             ZOBRIST_EN_PASSANT(to)),
                   !.state.en_passant_square = to]
    ELSE b

\* if double_step { .. en_passant_square = Some(to ^ 8) .. }
set_en_passant(b, double_step, to) ==
    IF double_step
    THEN [b EXCEPT !.state.zobrist_key =
                      BitXor(BitXor(@, ZOBRIST_EN_PASSANT(
                                          IF b.state.en_passant_square # None
                                          THEN b.state.en_passant_square
                                          ELSE ZOBRIST_EN_PASSANT_len)),
                             ZOBRIST_EN_PASSANT(Xor8(to))),
                   !.state.en_passant_square = Xor8(to)]
    ELSE b

\* the pawn branch of make_move
move_pawn(b, m, us, opponent) ==
    LET from == Move_from(m)
        to == Move_to(m)
        promotion == Move_promotion(m)
        is_promotion == promotion # Pieces_NONE
    IN set_en_passant(
         remove_en_passant_victim(
           [put_piece(remove_piece(b, TRUE, us, PAWN, from), TRUE, us,
                      IF is_promotion THEN promotion ELSE PAWN, to)
               EXCEPT !.state.half_move_clock = 0],
           opponent, Move_en_passant(m), to),
         Move_double_step(m), to)

\* if piece != PAWN { move_piece(us, piece, from, to) } else { .. }
move_mover(b, m, us, opponent) ==
    IF Move_piece(m) # PAWN
    THEN move_piece(b, TRUE, us, Move_piece(m), Move_from(m), Move_to(m))
    ELSE move_pawn(b, m, us, opponent)

\* if (piece == KING || piece == ROOK) && has_castling_permissions { .. PER_SQUARE[from] .. }
mover_rights(b, piece, from, has_castling_permissions) ==
    IF (piece = KING \/ piece = ROOK) /\ has_castling_permissions
    THEN update_castling(b, from)
    ELSE b

\* if castling { match to { .. } }
move_castling_rook(b, us, castling, to) ==
    IF castling
    THEN CASE to = G1 -> move_piece(b, TRUE, us, ROOK, H1, F1)
           [] to = C1 -> move_piece(b, TRUE, us, ROOK, A1, D1)
           [] to = G8 -> move_piece(b, TRUE, us, ROOK, H8, F8)
           [] to = C8 -> move_piece(b, TRUE, us, ROOK, A8, D8)
    ELSE b

\* zobrist_key ^= ZOBRIST_SIDE; side_to_move ^= 1; Black: full_move_number += 1 (u8)
switch_side(b, us) ==
    [b EXCEPT !.state.zobrist_key = BitXor(@, ZOBRIST_SIDE),
              !.state.side_to_move = 1 - @,
              !.state.full_move_number = IF us = BLACK THEN (@ + 1) % 256 ELSE @]

\* the legality test and the internal unmake_move; the result carries the board
\* make_move leaves, its return value, and (for reference) the board as it
\* stood when the test ran
finish_move(b, us, opponent) ==
    LET is_legal == ~is_square_attacked(b, opponent, trailing_zeros(b.piece_bitboards[us][KING]))
    IN [board |-> IF is_legal THEN b ELSE unmake_move(b),
        is_legal |-> is_legal,
        applied |-> b]

make_move(b, m) ==
    LET us == b.state.side_to_move
        opponent == 1 - us
        has_castling_permissions == b.state.castling_availability > 0
    IN finish_move(
         switch_side(
           move_castling_rook(
             mover_rights(
               move_mover(
                 capture_piece(
                   clear_en_passant(advance_clock(history_push(b, m))),
                   opponent, Move_capture(m), Move_to(m), has_castling_permissions),
                 m, us, opponent),
               Move_piece(m), Move_from(m), has_castling_permissions),
             us, Move_castling(m), Move_to(m)),
           us),
         us, opponent)

(***************************************************************************)
(* FEN (board/fen.rs, Board::from_fen).  A string is the sequence of its   *)
(* characters, a FEN the sequence of its whitespace-separated sections.    *)
(***************************************************************************)
PieceOfChar(char) ==
    CASE char \in {"k", "K"} -> KING
      [] char \in {"q", "Q"} -> QUEEN
      [] char \in {"r", "R"} -> ROOK
      [] char \in {"b", "B"} -> BISHOP
      [] char \in {"n", "N"} -> KNIGHT
      [] char \in {"p", "P"} -> PAWN

DigitOfChar(char) ==
    CASE char = "0" -> 0 [] char = "1" -> 1 [] char = "2" -> 2 [] char = "3" -> 3
      [] char = "4" -> 4 [] char = "5" -> 5 [] char = "6" -> 6 [] char = "7" -> 7
      [] char = "8" -> 8 [] char = "9" -> 9

FileOfChar(char) ==
    CASE char = "a" -> 0 [] char = "b" -> 1 [] char = "c" -> 2 [] char = "d" -> 3
      [] char = "e" -> 4 [] char = "f" -> 5 [] char = "g" -> 6 [] char = "h" -> 7

parse_side_to_move(section) ==
    IF section = <<"w">> THEN [ok |-> TRUE, value |-> WHITE]
    ELSE IF section = <<"b">> THEN [ok |-> TRUE, value |-> BLACK]
    ELSE [ok |-> FALSE, value |-> "InvalidActiveColor"]

Or4(a, b) == a + b - And4(a, b)

RECURSIVE parse_castling_loop(_, _, _)
parse_castling_loop(permissions, i, castling) ==
    IF i > Len(permissions) THEN [ok |-> TRUE, value |-> castling]
    ELSE CASE permissions[i] = "K" -> parse_castling_loop(permissions, i + 1, Or4(castling, WHITE_KING))
           [] permissions[i] = "Q" -> parse_castling_loop(permissions, i + 1, Or4(castling, WHITE_QUEEN))
           [] permissions[i] = "k" -> parse_castling_loop(permissions, i + 1, Or4(castling, BLACK_KING))
           [] permissions[i] = "q" -> parse_castling_loop(permissions, i + 1, Or4(castling, BLACK_QUEEN))
           [] permissions[i] = "-" -> parse_castling_loop(permissions, i + 1, castling)
           [] OTHER -> [ok |-> FALSE, value |-> "InvalidCastlingRights"]

parse_castling(permissions) ==
    IF Len(permissions) = 4 THEN [ok |-> TRUE, value |-> CastlingPermissions_ALL]
    ELSE IF Len(permissions) = 0 THEN [ok |-> TRUE, value |-> CastlingPermissions_NONE]
    ELSE parse_castling_loop(permissions, 1, 0)

from_algebraic_notation(notation) ==
    FileOfChar(notation[1]) + 8 * (DigitOfChar(notation[2]) - 1)

parse_en_passant_square(square) ==
    IF square = <<"-">> THEN [ok |-> TRUE, value |-> None]
    ELSE [ok |-> TRUE, value |-> from_algebraic_notation(square)]

\* 1u64 << square with square > 63 and rank -= 1 at rank 0 overflow: a panic
\* in a build with overflow checks, the result "overflow" here; the wrapped
\* values of a build without them are not followed
\* the body of `for char in placement.chars()` for one character
parse_piece_placement_char(char, rank, file, b) ==
    LET square == (rank * 8) + file
        is_black == char \in {"k", "q", "r", "b", "n", "p"}
        side == IF is_black THEN BLACK ELSE WHITE
    IN CASE char \in {"k", "q", "r", "b", "n", "p", "K", "Q", "R", "B", "N", "P"} ->
              IF square > 63 THEN [error |-> "overflow"]
              ELSE [error |-> "", rank |-> rank, file |-> file + 1,
                    b |-> [b EXCEPT !.piece_bitboards[side][PieceOfChar(char)] = @ \cup {square},
                                    !.side_bitboards[side] = @ \cup {square}]]
         [] char \in {"1", "2", "3", "4", "5", "6", "7", "8"} ->
              [error |-> "", rank |-> rank, file |-> file + DigitOfChar(char), b |-> b]
         [] char = "/" ->
              IF file # 8 THEN [error |-> "InvalidPiecePlacement"]
              ELSE IF rank = 0 THEN [error |-> "overflow"]
              ELSE [error |-> "", rank |-> rank - 1, file |-> 0, b |-> b]
         [] OTHER -> [error |-> "", rank |-> rank, file |-> file, b |-> b]

\* the for loop over placement[from..until], entered in state `at`: the first
\* half of the characters, then the second from where the first half ended;
\* an error ends the loop
RECURSIVE parse_piece_placement_loop(_, _, _, _)
parse_piece_placement_loop(placement, from, until, at) ==
    IF at.error # "" \/ from > until THEN at
    ELSE IF from = until
    THEN parse_piece_placement_char(placement[from], at.rank, at.file, at.b)
    ELSE parse_piece_placement_loop(placement, ((from + until) \div 2) + 1, until,
            parse_piece_placement_loop(placement, from, (from + until) \div 2, at))

parse_piece_placement(placement, b) ==
    LET at == parse_piece_placement_loop(placement, 1, Len(placement),
                [error |-> "", rank |-> R8, file |-> Files_A, b |-> b])
    IN IF at.error # "" THEN [ok |-> FALSE, value |-> at.error]
       ELSE [ok |-> TRUE, value |-> at.b]

RECURSIVE parse_u8_loop(_, _, _)
parse_u8_loop(text, i, acc) ==
    IF i > Len(text) THEN [ok |-> acc <= 255, value |-> acc]
    ELSE IF text[i] \in {"0", "1", "2", "3", "4", "5", "6", "7", "8", "9"} /\ acc <= 255
    THEN parse_u8_loop(text, i + 1, acc * 10 + DigitOfChar(text[i]))
    ELSE [ok |-> FALSE, value |-> acc]

parse_u8(text) == IF Len(text) = 0 THEN [ok |-> FALSE, value |-> 0] ELSE parse_u8_loop(text, 1, 0)

\* [Bitboard::EMPTY; NUMBER_OF_PIECES], written out entry by entry
NO_PIECES ==
    PAWN :> EMPTY @@ KNIGHT :> EMPTY @@ BISHOP :> EMPTY @@ ROOK :> EMPTY @@ QUEEN :> EMPTY
    @@ KING :> EMPTY

load_piece_table(b) ==
    [b EXCEPT !.piece_list =
        [square \in Squares_ALL |->
            LET kinds == {piece_type \in Pieces_ALL :
                            square \in b.piece_bitboards[WHITE][piece_type]
                                       \cup b.piece_bitboards[BLACK][piece_type]}
            IN IF kinds = {} THEN @[square]
               ELSE CHOOSE k \in kinds : \A j \in kinds : j <= k] @@ <<>>]

from_fen(fen) ==
    LET split_sections == IF Len(fen) = 4 THEN fen \o <<(<<"0">>), (<<"1">>)>> ELSE fen
    IN IF Len(split_sections) < 6 THEN [ok |-> FALSE, value |-> "InvalidFormat"]
       ELSE
         LET side == parse_side_to_move(split_sections[2])
             castling == parse_castling(split_sections[3])
             ep == parse_en_passant_square(split_sections[4])
             hmc == parse_u8(split_sections[5])
             fmn == parse_u8(split_sections[6])
         IN IF ~side.ok THEN side
            ELSE IF ~castling.ok THEN castling
            ELSE IF ~hmc.ok THEN [ok |-> FALSE, value |-> "InvalidHalfmoveClock"]
            ELSE IF ~fmn.ok THEN [ok |-> FALSE, value |-> "InvalidFullmoveNumber"]
            ELSE
              LET board == [state |-> [side_to_move |-> side.value,
                                       castling_availability |-> castling.value,
                                       en_passant_square |-> ep.value,
                                       half_move_clock |-> hmc.value,
                                       full_move_number |-> fmn.value,
                                       zobrist_key |-> {},
                                       next_move |-> Move_NULL],
                            history |-> <<>>,
                            piece_list |-> [square \in Squares_ALL |-> Pieces_NONE] @@ <<>>,
                            piece_bitboards |-> (WHITE :> NO_PIECES @@ BLACK :> NO_PIECES),
                            side_bitboards |-> (WHITE :> EMPTY @@ BLACK :> EMPTY)]
                  placed == parse_piece_placement(split_sections[1], board)
              IN IF ~placed.ok THEN placed
                 ELSE LET loaded == load_piece_table(placed.value)
                      IN [ok |-> TRUE,
                          value |-> [loaded EXCEPT !.state.zobrist_key =
                                        get_zobrist_key(loaded.piece_bitboards,
                                                        loaded.state.side_to_move,
                                                        loaded.state.castling_availability,
                                                        loaded.state.en_passant_square)]]

STARTING_POSITION_FEN ==
    <<<<"r", "n", "b", "q", "k", "b", "n", "r", "/", "p", "p", "p", "p", "p", "p", "p", "p", "/", "8", "/", "8", "/", "8", "/", "8", "/", "P", "P", "P", "P", "P", "P", "P", "P", "/", "R", "N", "B", "Q", "K", "B", "N", "R">>,
       <<"w">>,
       <<"K", "Q", "k", "q">>,
       <<"-">>,
       <<"0">>,
       <<"1">>>>

\* movegen/perft.rs, "CPW Perft Position 3"
CPW_POS_3_FEN ==
    <<<<"8", "/", "2", "p", "5", "/", "3", "p", "4", "/", "K", "P", "5", "r", "/", "1", "R", "3", "p", "1", "k", "/", "8", "/", "4", "P", "1", "P", "1", "/", "8">>,
       <<"w">>,
       <<"-">>,
       <<"-">>>>

\* the position after 1. e4
\* castling rights, a pawn attacking the transit square F1, promotions on a rook
SPARSE_CASTLE_FEN ==
    <<<<"4", "k", "2", "r", "/", "7", "p", "/", "8", "/", "8", "/", "8", "/", "8", "/", "6", "p", "P", "/", "4", "K", "2", "R">>,
       <<"w">>,
       <<"K", "k">>,
       <<"-">>,
       <<"0">>,
       <<"1">>>>

\* Black to move; a double step next to a white pawn on its fifth rank
BLACK_DOUBLE_STEP_FEN ==
    <<<<"4", "k", "3", "/", "3", "p", "4", "/", "8", "/", "4", "P", "3", "/", "8", "/", "8", "/", "8", "/", "4", "K", "3">>,
       <<"b">>,
       <<"-">>,
       <<"-">>,
       <<"0">>,
       <<"1">>>>

\* the positions the interleaving driver starts from
Fens == {CPW_POS_3_FEN, SPARSE_CASTLE_FEN, BLACK_DOUBLE_STEP_FEN}

(***************************************************************************)
(* Reference definitions used to state the properties: the rules of chess  *)
(* written directly on coordinates, independent of the engine's tables.    *)
(***************************************************************************)
Sign(x) == IF x > 0 THEN 1 ELSE IF x < 0 THEN -1 ELSE 0
Abs(x) == IF x < 0 THEN -x ELSE x

\* the squares strictly between s and t on a common rank, file or diagonal
RefBetween(s, t) ==
    LET dr == get_rank(t) - get_rank(s)
        df == get_file(t) - get_file(s)
        n == IF Abs(dr) > Abs(df) THEN Abs(dr) ELSE Abs(df)
    IN {s + k * (8 * Sign(dr) + Sign(df)) : k \in 1..(n - 1)}

RefAttacks(kind, colour, s, t, occ) ==
    LET dr == get_rank(t) - get_rank(s)
        df == get_file(t) - get_file(s)
        straight == (dr = 0 \/ df = 0) /\ s # t /\ RefBetween(s, t) \cap occ = {}
        diagonal == Abs(dr) = Abs(df) /\ s # t /\ RefBetween(s, t) \cap occ = {}
    IN CASE kind = KING -> s # t /\ Abs(dr) <= 1 /\ Abs(df) <= 1
         [] kind = KNIGHT -> {Abs(dr), Abs(df)} = {1, 2}
         [] kind = PAWN -> Abs(df) = 1 /\ dr = (IF colour = WHITE THEN 1 ELSE -1)
         [] kind = ROOK -> straight
         [] kind = BISHOP -> diagonal
         [] kind = QUEEN -> straight \/ diagonal

RefAttacked(b, attacker, t) ==
    \E kind \in Pieces_ALL : \E s \in b.piece_bitboards[attacker][kind] :
        RefAttacks(kind, attacker, s, t, occupancy(b))

\* the part of a Board the properties compare (everything but next_move)
View(b) ==
    [piece_bitboards |-> b.piece_bitboards,
     side_bitboards |-> b.side_bitboards,
     piece_list |-> b.piece_list,
     side_to_move |-> b.state.side_to_move,
     castling_availability |-> b.state.castling_availability,
     en_passant_square |-> b.state.en_passant_square,
     half_move_clock |-> b.state.half_move_clock,
     full_move_number |-> b.state.full_move_number,
     zobrist_key |-> b.state.zobrist_key,
     history_len |-> Len(b.history)]

(***************************************************************************)
(* The state machine: a driver that calls make_move with any generated     *)
(* move and unmake_move, in any order.                                     *)
(***************************************************************************)
Board ==
    [piece_bitboards |-> piece_bitboards,
     side_bitboards |-> side_bitboards,
     piece_list |-> piece_list,
     state |-> state,
     history |-> history]

SetBoard(b) ==
    /\ piece_bitboards' = b.piece_bitboards
    /\ side_bitboards' = b.side_bitboards
    /\ piece_list' = b.piece_list
    /\ state' = b.state
    /\ history' = b.history

InitBoard(b) ==
    /\ piece_bitboards = b.piece_bitboards
    /\ side_bitboards = b.side_bitboards
    /\ piece_list = b.piece_list
    /\ state = b.state
    /\ history = b.history

Init ==
    /\ \E fen \in Fens :
        LET r == from_fen(fen)
        IN /\ r.ok
           /\ InitBoard(r.value)
           /\ last = [op |-> "init", m |-> Move_NULL, legal |-> TRUE, exposed |-> FALSE,
                      before |-> View(r.value)]
    /\ crashed = FALSE
    /\ shadow = <<>>
    /\ pf = [pc |-> "idle"]
    /\ unit = [pc |-> "idle"]

\* the moves of a move list, as a set
MovesOf(move_list) == {move_list[i] : i \in 1..Len(move_list)}

MakeMove ==
    /\ ~crashed
    /\ Len(history) < MaxPly
    /\ LET b == Board
       IN \E m \in MovesOf(generate_moves(b)) :
            LET r == make_move(b, m)
                exposed == RefAttacked(r.applied, 1 - b.state.side_to_move,
                               trailing_zeros(r.applied.piece_bitboards[b.state.side_to_move][KING]))
            IN /\ SetBoard(r.board)
               /\ last' = [op |-> "make", m |-> m, legal |-> r.is_legal, exposed |-> exposed,
                           before |-> View(b)]
               /\ shadow' = IF r.is_legal THEN Append(shadow, [view |-> View(b), m |-> m])
                            ELSE shadow
    /\ UNCHANGED <<crashed, pf, unit>>

UnmakeMove ==
    /\ ~crashed
    /\ Len(history) > 0
    /\ LET b == Board
       IN /\ SetBoard(unmake_move(b))
          /\ last' = [op |-> "unmake", m |-> shadow[Len(shadow)].m, legal |-> TRUE,
                      exposed |-> FALSE, before |-> View(b),
                      expected |-> shadow[Len(shadow)].view]
          /\ shadow' = SubSeq(shadow, 1, Len(shadow) - 1)
    /\ UNCHANGED <<crashed, pf, unit>>

\* history.pop().unwrap() on an empty history panics before anything is written
UnmakeEmpty ==
    /\ ~crashed
    /\ Len(history) = 0
    /\ crashed' = TRUE
    /\ UNCHANGED <<piece_bitboards, side_bitboards, piece_list, state, history, last, shadow,
                   pf, unit>>

Next == MakeMove \/ UnmakeMove \/ UnmakeEmpty

Spec == Init /\ [][Next]_vars

(***************************************************************************)
(* perft (movegen/perft.rs): the depth-first driver of make/unmake.  The   *)
(* recursion of perft_internal is an explicit stack of frames.             *)
(***************************************************************************)
KIWIPETE_FEN ==
    <<<<"r", "3", "k", "2", "r", "/", "p", "1", "p", "p", "q", "p", "b", "1", "/", "b", "n", "2", "p", "n", "p", "1", "/", "3", "P", "N", "3", "/", "1", "p", "2", "P", "3", "/", "2", "N", "2", "Q", "1", "p", "/", "P", "P", "P", "B", "B", "P", "P", "P", "/", "R", "3", "K", "2", "R">>,
       <<"w">>,
       <<"K", "Q", "k", "q">>,
       <<"-">>>>

CPW_POS_4_FEN ==
    <<<<"r", "3", "k", "2", "r", "/", "P", "p", "p", "p", "1", "p", "p", "p", "/", "1", "b", "3", "n", "b", "N", "/", "n", "P", "6", "/", "B", "B", "P", "1", "P", "3", "/", "q", "4", "N", "2", "/", "P", "p", "1", "P", "2", "P", "P", "/", "R", "2", "Q", "1", "R", "K", "1">>,
       <<"w">>,
       <<"k", "q">>,
       <<"-">>,
       <<"0">>,
       <<"1">>>>

CPW_POS_5_FEN ==
    <<<<"r", "n", "b", "q", "1", "k", "1", "r", "/", "p", "p", "1", "P", "b", "p", "p", "p", "/", "2", "p", "5", "/", "8", "/", "2", "B", "5", "/", "8", "/", "P", "P", "P", "1", "N", "n", "P", "P", "/", "R", "N", "B", "Q", "K", "2", "R">>,
       <<"w">>,
       <<"K", "Q">>,
       <<"-">>,
       <<"1">>,
       <<"8">>>>

\* the positions of generate_perft_tests!, each run to the given depth after
\* the given moves (origin and destination) have been made on the board
PerftTests ==
    {[name |-> "starter_fen", fen |-> STARTING_POSITION_FEN, moves |-> <<>>, depth |-> 3],
     [name |-> "after_e2e4", fen |-> STARTING_POSITION_FEN, moves |-> <<<<E2, E4>>>>, depth |-> 1],
     [name |-> "kiwipete", fen |-> KIWIPETE_FEN, moves |-> <<>>, depth |-> 2],
     [name |-> "cpw_pos_3", fen |-> CPW_POS_3_FEN, moves |-> <<>>, depth |-> 3],
     [name |-> "cpw_pos_4", fen |-> CPW_POS_4_FEN, moves |-> <<>>, depth |-> 2],
     [name |-> "cpw_pos_5", fen |-> CPW_POS_5_FEN, moves |-> <<>>, depth |-> 2]}

\* make_move of the generated move with the given origin and destination
RECURSIVE play_moves(_, _)
play_moves(b, moves) ==
    IF moves = <<>> THEN b
    ELSE LET m == CHOOSE x \in MovesOf(generate_moves(b)) :
                      Move_from(x) = Head(moves)[1] /\ Move_to(x) = Head(moves)[2]
         IN play_moves(make_move(b, m).board, Tail(moves))

PerftInit ==
    /\ \E t \in PerftTests :
        LET r == from_fen(t.fen)
            b == play_moves(r.value, t.moves)
        IN /\ r.ok
           /\ InitBoard(b)
           /\ last = [op |-> "init", m |-> Move_NULL, legal |-> TRUE, exposed |-> FALSE,
                      before |-> View(r.value)]
           /\ pf = [pc |-> "outer", name |-> t.name, depth |-> t.depth, d |-> 1,
                    nodes |-> <<>>, frames |-> <<>>, ret |-> 0]
    /\ crashed = FALSE
    /\ shadow = <<>>
    /\ unit = [pc |-> "idle"]

Top == pf.frames[Len(pf.frames)]

\* perft: for depth in 1..=depth { perft_internal(&mut board, depth, ..) }
PerftOuter ==
    /\ pf.pc = "outer"
    /\ pf.d <= pf.depth
    /\ pf' = [pf EXCEPT !.pc = "loop",
                        !.frames = <<[move_list |-> generate_moves(Board), i |-> 1,
                                      nodes |-> 0, depth |-> pf.d]>>]
    /\ UNCHANGED <<piece_bitboards, side_bitboards, piece_list, state, history,
                   crashed, last, shadow, unit>>

\* perft_internal: let is_legal = board.make_move(m)
PerftMake ==
    /\ pf.pc = "loop"
    /\ Top.i <= Len(Top.move_list)
    /\ LET b == Board
           m == Top.move_list[Top.i]
           r == make_move(b, m)
           exposed == RefAttacked(r.applied, 1 - b.state.side_to_move,
                          trailing_zeros(r.applied.piece_bitboards[b.state.side_to_move][KING]))
       IN /\ SetBoard(r.board)
          /\ last' = [op |-> "make", m |-> m, legal |-> r.is_legal, exposed |-> exposed,
                      before |-> View(b)]
          /\ shadow' = IF r.is_legal THEN Append(shadow, [view |-> View(b), m |-> m])
                       ELSE shadow
          /\ pf' = IF r.is_legal
                   THEN [pf EXCEPT !.pc = "call"]
                   ELSE [pf EXCEPT !.frames[Len(pf.frames)].i = @ + 1]
    /\ UNCHANGED <<crashed, unit>>

\* perft_internal(board, depth - 1, ..): returns 1 at depth 0, else generates
PerftCall ==
    /\ pf.pc = "call"
    /\ pf' = IF Top.depth - 1 = 0
             THEN [pf EXCEPT !.pc = "ret", !.ret = 1]
             ELSE [pf EXCEPT !.pc = "loop",
                             !.frames = Append(@, [move_list |-> generate_moves(Board), i |-> 1,
                                                   nodes |-> 0, depth |-> Top.depth - 1])]
    /\ UNCHANGED <<piece_bitboards, side_bitboards, piece_list, state, history,
                   crashed, last, shadow, unit>>

\* nodes += <returned value>; board.unmake_move()
PerftUnmake ==
    /\ pf.pc = "ret"
    /\ LET b == Board
       IN /\ SetBoard(unmake_move(b))
          /\ last' = [op |-> "unmake", m |-> shadow[Len(shadow)].m, legal |-> TRUE,
                      exposed |-> FALSE, before |-> View(b),
                      expected |-> shadow[Len(shadow)].view]
          /\ shadow' = SubSeq(shadow, 1, Len(shadow) - 1)
    /\ pf' = [pf EXCEPT !.pc = "loop",
                        !.frames[Len(pf.frames)].nodes = @ + pf.ret,
                        !.frames[Len(pf.frames)].i = @ + 1]
    /\ UNCHANGED <<crashed, unit>>

\* the move list is exhausted: perft_internal returns nodes to its caller
PerftReturn ==
    /\ pf.pc = "loop"
    /\ Top.i > Len(Top.move_list)
    /\ pf' = IF Len(pf.frames) > 1
             THEN [pf EXCEPT !.pc = "ret", !.ret = Top.nodes,
                             !.frames = SubSeq(@, 1, Len(@) - 1)]
             ELSE [pf EXCEPT !.pc = "outer", !.d = @ + 1,
                             !.nodes = Append(@, Top.nodes),
                             !.frames = <<>>]
    /\ UNCHANGED <<piece_bitboards, side_bitboards, piece_list, state, history,
                   crashed, last, shadow, unit>>

PerftDone ==
    /\ pf.pc = "outer"
    /\ pf.d > pf.depth
    /\ pf' = [pf EXCEPT !.pc = "done"]
    /\ UNCHANGED <<piece_bitboards, side_bitboards, piece_list, state, history,
                   crashed, last, shadow, unit>>

PerftNext == PerftOuter \/ PerftMake \/ PerftCall \/ PerftUnmake \/ PerftReturn \/ PerftDone

SpecPerft == PerftInit /\ [][PerftNext]_vars

(***************************************************************************)
(* Properties                                                              *)
(***************************************************************************)
MadeLegal == last.op = "make" /\ last.legal
MadeIllegal == last.op = "make" /\ ~last.legal
Unmade == last.op = "unmake"

\* C1: a make_move that returned true, immediately followed by unmake_move,
\* leaves every piece bitboard, both side bitboards, the piece list, the
\* state (side to move, castling rights, en-passant square, both clocks,
\* zobrist key) and the history length as they were before the make_move.
C1_MakeUnmakeRestores ==
    [][(MadeLegal /\ last'.op = "unmake") => View(Board)' = last.before]_vars

C1_Witness ==
    /\ Unmade
    /\ Move_capture(last.m) # Pieces_NONE
    /\ Move_promotion(last.m) # Pieces_NONE
    /\ View(Board) = last.expected

RefKey(b) ==
    LET piece_part == {ZOBRIST_PIECES(kind + (IF colour = BLACK THEN 6 ELSE 0), square) :
                          <<colour, kind, square>> \in
                              {t \in Sides_ALL \X Pieces_ALL \X Squares_ALL :
                                  t[3] \in b.piece_bitboards[t[1]][t[2]]}}
        castling_part == ZOBRIST_CASTLING(b.state.castling_availability)
        ep_part == IF b.state.en_passant_square # None
                   THEN ZOBRIST_EN_PASSANT(b.state.en_passant_square) ELSE {}
        side_part == IF b.state.side_to_move = BLACK THEN ZOBRIST_SIDE ELSE {}
    IN BitXor(BitXor(BitXor(UNION piece_part, castling_part), ep_part), side_part)

\* C3: after every make_move that returns true the incremental zobrist key
\* equals the key recomputed from scratch.
C3_ZobristIncremental == MadeLegal => state.zobrist_key = RefKey(Board)

C3_Witness ==
    /\ MadeLegal
    /\ Move_en_passant(last.m)
    /\ last.before.en_passant_square # None
    /\ state.zobrist_key = RefKey(Board)

\* C4: perft from the starting position is 20, 400, 8902 at depths 1, 2, 3,
\* and perft(1) of the position after e2e4 is 20.
C4_PerftCounts ==
    pf.pc = "done" =>
        /\ pf.name = "starter_fen" => pf.nodes = <<20, 400, 8902>>
        /\ pf.name = "after_e2e4" => pf.nodes = <<20>>

C4_Witness == pf.pc = "done" /\ pf.name = "starter_fen" /\ Len(pf.nodes) = 3

\* C5: after every completed make_move and unmake_move each side bitboard is
\* the union of that side's six piece bitboards and the two are disjoint.
C5_SideBitboards ==
    last.op \in {"make", "unmake"} =>
        /\ \A c \in Sides_ALL :
              side_bitboards[c] = UNION {piece_bitboards[c][k] : k \in Pieces_ALL}
        /\ side_bitboards[WHITE] \cap side_bitboards[BLACK] = {}

C5_Witness == Unmade /\ Move_capture(last.m) = ROOK /\ Move_piece(last.m) = PAWN

\* C6: after every completed make_move and unmake_move, piece_list[s] is the
\* kind of the piece whose bitboard holds s, and None when no bitboard does.
C6_PieceList ==
    last.op \in {"make", "unmake"} =>
        \A s \in Squares_ALL :
            LET kinds == {k \in Pieces_ALL :
                            s \in piece_bitboards[WHITE][k] \cup piece_bitboards[BLACK][k]}
            IN IF kinds = {} THEN piece_list[s] = Pieces_NONE
               ELSE kinds = {piece_list[s]}

C6_Witness == Unmade /\ Move_castling(last.m) /\ piece_list[Move_from(last.m)] = KING

\* C7: each colour's king bitboard always has exactly one bit; no accepted
\* move captures a king.
C7_OneKingEach ==
    /\ \A c \in Sides_ALL : Cardinality(piece_bitboards[c][KING]) = 1
    /\ MadeLegal => Move_capture(last.m) # KING

C7_Witness ==
    /\ MadeIllegal
    /\ Move_piece(last.m) = KING
    /\ \A c \in Sides_ALL : Cardinality(piece_bitboards[c][KING]) = 1

CastlingEmitted(offset) ==
    LET us == state.side_to_move
        home == IF us = WHITE THEN E1 ELSE E8
    IN \E m \in MovesOf(generate_moves(Board)) :
          /\ Move_piece(m) = KING
          /\ Move_castling(m)
          /\ Move_from(m) = home
          /\ Move_to(m) = home + offset

CastlingExpected(right, between, transit) ==
    LET us == state.side_to_move
        home == IF us = WHITE THEN E1 ELSE E8
        occ == side_bitboards[WHITE] \cup side_bitboards[BLACK]
    IN /\ And4(state.castling_availability, right) # 0
       /\ \A f \in between : (get_rank(home) * 8 + f) \notin occ
       /\ ~RefAttacked(Board, 1 - us, home)
       /\ ~RefAttacked(Board, 1 - us, get_rank(home) * 8 + transit)

\* C9: the king-side castling move is emitted exactly when the right is set,
\* F and G are empty and neither the origin nor F is attacked; the queen-side
\* move exactly when the right is set, B, C and D are empty and neither the
\* origin nor D is attacked.  Checked in every position a make_move leaves.
C9_CastlingGenerated ==
    pf.pc \in {"call", "outer"} =>
        LET us == state.side_to_move
        IN /\ CastlingEmitted(2) <=>
                CastlingExpected(IF us = WHITE THEN WHITE_KING ELSE BLACK_KING, {5, 6}, 5)
           /\ CastlingEmitted(-2) <=>
                CastlingExpected(IF us = WHITE THEN WHITE_QUEEN ELSE BLACK_QUEEN, {1, 2, 3}, 3)
           /\ \A m \in MovesOf(generate_moves(Board)) :
                Move_castling(m) => /\ Move_piece(m) = KING
                                    /\ Move_from(m) = (IF us = WHITE THEN E1 ELSE E8)
                                    /\ Abs(Move_to(m) - Move_from(m)) = 2

C9_Witness ==
    /\ pf.pc = "call"
    /\ CastlingEmitted(-2)
    /\ RefAttacked(Board, 1 - state.side_to_move, (IF state.side_to_move = WHITE THEN B1 ELSE B8))

\* the rights a move from, or a capture on, a square clears
RefCleared(square) ==
    CASE square = A1 -> WHITE_QUEEN
      [] square = H1 -> WHITE_KING
      [] square = E1 -> WHITE_KING + WHITE_QUEEN
      [] square = A8 -> BLACK_QUEEN
      [] square = H8 -> BLACK_KING
      [] square = E8 -> BLACK_KING + BLACK_QUEEN

RefCastlingSquares == {A1, E1, H1, A8, E8, H8}

\* C10: an accepted move from, or capture on, A1/H1/E1/A8/H8/E8 leaves the
\* corresponding rights cleared; a move touching none of the six squares
\* leaves the rights unchanged; make_move never adds a right.
C10_CastlingRights ==
    last.op = "make" =>
        LET old == last.before.castling_availability
            new == state.castling_availability
            from == Move_from(last.m)
            capture_square == IF Move_capture(last.m) # Pieces_NONE THEN Move_to(last.m) ELSE None
        IN /\ And4(new, old) = new
           /\ last.legal =>
                /\ \A sq \in RefCastlingSquares :
                      (from = sq \/ capture_square = sq) => And4(new, RefCleared(sq)) = 0
                /\ (from \notin RefCastlingSquares /\ capture_square \notin RefCastlingSquares)
                      => new = old

C10_Witness ==
    /\ MadeLegal
    /\ Move_capture(last.m) = ROOK
    /\ Move_to(last.m) \in {A1, H1, A8, H8}
    /\ And4(last.before.castling_availability, RefCleared(Move_to(last.m))) # 0
    /\ And4(state.castling_availability, RefCleared(Move_to(last.m))) = 0

\* the positions, in the list generate_moves returns, of the pawn moves with
\* the given origin and destination
PawnMoveIndices(move_list, from, to) ==
    {i \in 1..Len(move_list) :
        /\ Move_piece(move_list[i]) = PAWN
        /\ Move_from(move_list[i]) = from
        /\ Move_to(move_list[i]) = to}

\* C11: a pawn move to the mover's promotion rank is emitted exactly four
\* times, with the same origin, destination and capture, promoting to Knight,
\* Bishop, Rook, Queen in that order; a pawn move to any other rank is
\* emitted exactly once, with promotion = None.
C11_PromotionExpansion ==
    pf.pc \in {"call", "outer"} =>
        LET move_list == generate_moves(Board)
            last_rank == IF state.side_to_move = WHITE THEN R8 ELSE R1
        IN \A i \in 1..Len(move_list) :
              Move_piece(move_list[i]) = PAWN =>
                LET m == move_list[i]
                    same == PawnMoveIndices(move_list, Move_from(m), Move_to(m))
                    first == CHOOSE j \in same : \A k \in same : j <= k
                IN IF get_rank(Move_to(m)) = last_rank
                   THEN /\ same = first..(first + 3)
                        /\ Move_promotion(move_list[first]) = KNIGHT
                        /\ Move_promotion(move_list[first + 1]) = BISHOP
                        /\ Move_promotion(move_list[first + 2]) = ROOK
                        /\ Move_promotion(move_list[first + 3]) = QUEEN
                        /\ \A j \in same : Move_capture(move_list[j]) = Move_capture(m)
                   ELSE /\ same = {i}
                        /\ Move_promotion(m) = Pieces_NONE

C11_Witness ==
    /\ pf.pc = "call"
    /\ state.side_to_move = BLACK
    /\ \E m \in MovesOf(generate_moves(Board)) :
          /\ Move_promotion(m) = QUEEN
          /\ Move_capture(m) # Pieces_NONE
    /\ \E m \in MovesOf(generate_moves(Board)) :
          /\ Move_piece(m) = PAWN
          /\ Move_promotion(m) = Pieces_NONE

\* C12 as stated: an en-passant square present after a completed make_move or
\* unmake_move is on rank 3 if White is to move, on rank 6 if Black is to move.
C12_Original ==
    (last.op \in {"make", "unmake"} /\ state.en_passant_square # None) =>
        get_rank(state.en_passant_square) = (IF state.side_to_move = WHITE THEN R3 ELSE R6)

\* C12 (amended): an en-passant square present after a completed make_move or
\* unmake_move is on rank 3 if Black is to move (White has just made a double
\* step) and on rank 6 if White is to move.
C12_EnPassantRank ==
    (last.op \in {"make", "unmake"} /\ state.en_passant_square # None) =>
        get_rank(state.en_passant_square) = (IF state.side_to_move = BLACK THEN R3 ELSE R6)

C12_Witness ==
    /\ MadeLegal
    /\ Move_double_step(last.m)
    /\ state.side_to_move = WHITE
    /\ state.en_passant_square # None
    /\ get_rank(state.en_passant_square) = R6

(***************************************************************************)
(* MoveGenerator::new and init_magics (movegen.rs, movegen/init.rs): the   *)
(* construction of the magic tables, one step per blocker board.           *)
(***************************************************************************)
\* the component specifications leave the board alone
boardvars == <<piece_bitboards, side_bitboards, piece_list, state, history,
               crashed, last, shadow, pf>>

BoardIdle ==
    /\ InitBoard(from_fen(STARTING_POSITION_FEN).value)
    /\ last = [op |-> "init", m |-> Move_NULL, legal |-> TRUE, exposed |-> FALSE,
               before |-> View(from_fen(STARTING_POSITION_FEN).value)]
    /\ crashed = FALSE
    /\ shadow = <<>>
    /\ pf = [pc |-> "idle"]

\* how many squares of Squares::ALL the loop of init_magics walks for each
\* piece; the squares left out are taken to pass
MaxRookSquares == 1
MaxBishopSquares == 3

NUMBER_OF_ROOK_MOVES == 102400
NUMBER_OF_BISHOP_MOVES == 5248

count_ones(bb) == Cardinality(bb)

\* u64::wrapping_sub, by ripple borrow over the 64 bits
\* u64::wrapping_sub, bit by bit: a borrow enters bit k when the bits below k
\* of a, read as a number, are less than those of b
wrapping_sub_borrow(a, b, bit) ==
    LET differing == {j \in 0..(bit - 1) : (j \in a) # (j \in b)}
    IN differing # {} /\ (CHOOSE j \in differing : \A t \in differing : t <= j) \in b

wrapping_sub(a, b) ==
    {bit \in 0..63 : ((bit \in a) # (bit \in b)) # wrapping_sub_borrow(a, b, bit)}

\* n = n.wrapping_sub(d) & d
next_blocker_board(n, d) == wrapping_sub(n, d) \cap d

\* the value of a blocker board read as a number over the bits of its mask
RECURSIVE pext(_, _)
pext(blockers, mask) ==
    IF mask = {} THEN 0
    ELSE LET top == CHOOSE s \in mask : \A t \in mask : t <= s
         IN (IF top \in blockers THEN 2 ^ (Cardinality(mask) - 1) ELSE 0)
            + pext(blockers, mask \ {top})

\* the magic multipliers are input constants; what one does to the blocker
\* boards of its square is one of: a perfect hash, a hash that folds the upper
\* half of the blocker boards onto the lower half, a hash that runs one past
\* the end of the square's range
MagicKinds == {"perfect", "colliding", "overshooting"}

Magic_default == [mask |-> EMPTY, offset |-> 0, shift |-> 0, number |-> "perfect"]

\* Magic::get_index: offset + ((blockers * number) >> shift)
Magic_index(magic, blockers) ==
    LET bits == 64 - magic.shift
        hash == pext(blockers \cap magic.mask, magic.mask)
    IN magic.offset
       + (CASE magic.number = "perfect" -> hash
            [] magic.number = "colliding" -> hash % (2 ^ (bits - 1))
            [] magic.number = "overshooting" -> hash + 1)

magic_mask(is_rook, square) == IF is_rook THEN ROOK_MASK[square] ELSE BISHOP_MASK[square]

magic_attacks(is_rook, blocker_board, square) ==
    IF is_rook THEN rook_attack_board(blocker_board, square)
    ELSE bishop_attack_board(blocker_board, square)

\* let magic = Magic { mask, offset, shift: (64 - bits) as u8, number }
magic_of(is_rook, square, offset, numbers) ==
    [mask |-> magic_mask(is_rook, square),
     offset |-> offset,
     shift |-> 64 - count_ones(magic_mask(is_rook, square)),
     number |-> numbers[square]]

\* a table is a vec![Bitboard::EMPTY; len]: the entries written, EMPTY elsewhere
table_get(table, index) == IF index \in DOMAIN table THEN table[index] ELSE EMPTY

\* the body of `for i in 0..permutations` with no check at all
magic_store_unchecked(table, len, index, offset, end, attacks) ==
    [panicked |-> FALSE, table |-> (index :> attacks) @@ table]

\* the body of `for i in 0..permutations`: an index past the Vec, a used slot
\* and a slot outside offset..=end all panic
magic_store(table, len, index, offset, end, attacks) ==
    IF index >= len THEN [panicked |-> TRUE, table |-> table]
    ELSE IF table_get(table, index) = EMPTY
    THEN IF index < offset \/ index > end
         THEN [panicked |-> TRUE, table |-> table]
         ELSE [panicked |-> FALSE, table |-> (index :> attacks) @@ table]
    ELSE [panicked |-> TRUE, table |-> table]

\* the squares the bound leaves out add their permutations to offset
RECURSIVE skipped_permutations(_, _)
skipped_permutations(is_rook, square) ==
    IF square >= Squares_COUNT THEN 0
    ELSE 2 ^ count_ones(magic_mask(is_rook, square)) + skipped_permutations(is_rook, square + 1)

MagicSquares(is_rook) == IF is_rook THEN MaxRookSquares ELSE MaxBishopSquares

\* the magic numbers of one piece: perfect, but for at most one walked square
MagicNumbers(is_rook) ==
    {[square \in Squares_ALL |-> IF square = at THEN kind ELSE "perfect"] :
        at \in 0..(MagicSquares(is_rook) - 1), kind \in MagicKinds}

\* MoveGenerator::new up to the first call of init_magics
NewInit ==
    /\ BoardIdle
    /\ \E rook_numbers \in MagicNumbers(TRUE), bishop_numbers \in MagicNumbers(FALSE) :
        unit = [pc |-> "init_magics", is_rook |-> TRUE, square |-> 0, i |-> 0, n |-> EMPTY,
                offset |-> 0,
                rook_moves |-> <<>>, bishop_moves |-> <<>>,
                rook_magics |-> [square \in Squares_ALL |-> Magic_default],
                bishop_magics |-> [square \in Squares_ALL |-> Magic_default],
                ROOK_MAGIC_NUMBERS |-> rook_numbers,
                BISHOP_MAGIC_NUMBERS |-> bishop_numbers]

unit_numbers == IF unit.is_rook THEN unit.ROOK_MAGIC_NUMBERS ELSE unit.BISHOP_MAGIC_NUMBERS
unit_table == IF unit.is_rook THEN unit.rook_moves ELSE unit.bishop_moves
unit_table_len == IF unit.is_rook THEN NUMBER_OF_ROOK_MOVES ELSE NUMBER_OF_BISHOP_MOVES
unit_mask == magic_mask(unit.is_rook, unit.square)
unit_permutations == 2 ^ count_ones(unit_mask)

\* one turn of `for i in 0..permutations`: blocker_boards[i] is the i-th board
\* of the carry-rippler and attack_boards[i] the attacks it leaves
InitMagicsStep ==
    /\ unit.pc = "init_magics"
    /\ unit.square < MagicSquares(unit.is_rook)
    /\ unit.i < unit_permutations
    /\ LET magic == magic_of(unit.is_rook, unit.square, unit.offset, unit_numbers)
           end == unit.offset + unit_permutations - 1
           index == Magic_index(magic, unit.n)
           r == magic_store(unit_table, unit_table_len, index, unit.offset, end,
                            magic_attacks(unit.is_rook, unit.n, unit.square))
       IN unit' = IF r.panicked \/ (unit.i > 0 /\ unit.n = EMPTY)
                  THEN [unit EXCEPT !.pc = "panicked"]
                  ELSE IF unit.is_rook
                  THEN [unit EXCEPT !.rook_moves = r.table, !.i = @ + 1,
                                    !.n = next_blocker_board(@, unit_mask)]
                  ELSE [unit EXCEPT !.bishop_moves = r.table, !.i = @ + 1,
                                    !.n = next_blocker_board(@, unit_mask)]
    /\ UNCHANGED boardvars

\* self.rook_magics[square] = magic; offset += permutations
InitMagicsSquare ==
    /\ unit.pc = "init_magics"
    /\ unit.square < MagicSquares(unit.is_rook)
    /\ unit.i = unit_permutations
    /\ LET magic == magic_of(unit.is_rook, unit.square, unit.offset, unit_numbers)
       IN unit' = IF unit.is_rook
                  THEN [unit EXCEPT !.rook_magics[unit.square] = magic, !.square = @ + 1,
                                    !.i = 0, !.n = EMPTY, !.offset = @ + unit_permutations]
                  ELSE [unit EXCEPT !.bishop_magics[unit.square] = magic, !.square = @ + 1,
                                    !.i = 0, !.n = EMPTY, !.offset = @ + unit_permutations]
    /\ UNCHANGED boardvars

\* assert_eq!(offset, table_size); new goes on to the bishops, then returns
InitMagicsEnd ==
    /\ unit.pc = "init_magics"
    /\ unit.square = MagicSquares(unit.is_rook)
    /\ unit' = IF unit.offset + skipped_permutations(unit.is_rook, unit.square) # unit_table_len
               THEN [unit EXCEPT !.pc = "panicked"]
               ELSE IF unit.is_rook
               THEN [unit EXCEPT !.is_rook = FALSE, !.square = 0, !.i = 0, !.n = EMPTY,
                                 !.offset = 0]
               ELSE [unit EXCEPT !.pc = "returned"]
    /\ UNCHANGED boardvars

NewNext == InitMagicsStep \/ InitMagicsSquare \/ InitMagicsEnd

SpecNew == NewInit /\ [][NewNext]_vars

\* the blocker boards of the walked squares of one piece, each with its square
MagicKeys(is_rook) ==
    UNION {{<<square, blockers>> : blockers \in SUBSET magic_mask(is_rook, square)} :
             square \in 0..(MagicSquares(is_rook) - 1)}

MagicIndexOf(is_rook, key) ==
    Magic_index(IF is_rook THEN unit.rook_magics[key[1]] ELSE unit.bishop_magics[key[1]], key[2])

MagicInjective(is_rook) ==
    /\ Cardinality({MagicIndexOf(is_rook, key) : key \in MagicKeys(is_rook)})
         = Cardinality(MagicKeys(is_rook))
    /\ \A key \in MagicKeys(is_rook) :
         LET magic == IF is_rook THEN unit.rook_magics[key[1]] ELSE unit.bishop_magics[key[1]]
         IN /\ MagicIndexOf(is_rook, key) >= magic.offset
            /\ MagicIndexOf(is_rook, key) <= magic.offset + 2 ^ count_ones(magic.mask) - 1

\* C13: when MoveGenerator::new returns, init_magics has panicked on no index:
\* for each piece, two distinct (square, blocker board) pairs have distinct
\* indices, and every index lies in offset .. offset + 2^bits - 1 of its square.
C13_MagicsInjective ==
    unit.pc = "returned" => MagicInjective(TRUE) /\ MagicInjective(FALSE)

C13_Witness ==
    /\ unit.pc = "returned"
    /\ Cardinality(DOMAIN unit.rook_moves) = Cardinality(MagicKeys(TRUE))
    /\ Cardinality(DOMAIN unit.bishop_moves) = Cardinality(MagicKeys(FALSE))
    /\ \A index \in DOMAIN unit.bishop_moves : unit.bishop_moves[index] # EMPTY

(***************************************************************************)
(* gambit::bitboard (bitboard/core.rs, bitboard/ops.rs): the iterators of  *)
(* a Bitboard, driven one call at a time.                                  *)
(***************************************************************************)
\* the bitboards iterated: those over BitboardSquares with at most
\* MaxBitboardBits squares set
MaxBitboardBits == 4
BitboardSquares == {0, 1, 3, 32, 62, 63}
Bitboards == {b \in SUBSET BitboardSquares : Cardinality(b) <= MaxBitboardBits}

\* calls made after an iterator has first returned None
MaxNones == 2

Option_None == [some |-> FALSE]
Option_Some(value) == [some |-> TRUE, value |-> value]

Bitboard_is_empty(bb) == bb = EMPTY

\* 63 - leading_zeros
leading_zeros(bb) == IF bb = {} THEN 64 ELSE 63 - (CHOOSE s \in bb : \A t \in bb : t <= s)

\* Bitboard::pop clearing the highest bit instead of the lowest
Bitboard_pop_clears_highest(bb) ==
    IF Bitboard_is_empty(bb) THEN [ret |-> Option_None, self |-> bb]
    ELSE [ret |-> Option_Some(trailing_zeros(bb)),
          self |-> bb \ {63 - leading_zeros(bb)}]

\* Bitboard::pop: self.bits() & self.bits().wrapping_sub(1)
Bitboard_pop(bb) ==
    IF Bitboard_is_empty(bb) THEN [ret |-> Option_None, self |-> bb]
    ELSE [ret |-> Option_Some(trailing_zeros(bb)),
          self |-> bb \cap wrapping_sub(bb, {0})]

\* Bitboard::pop_back: *self ^= Square::BITBOARDS[square]
Bitboard_pop_back(bb) ==
    IF Bitboard_is_empty(bb) THEN [ret |-> Option_None, self |-> bb]
    ELSE [ret |-> Option_Some(63 - leading_zeros(bb)),
          self |-> BitXor(bb, Bitboard_from_square(63 - leading_zeros(bb)))]

BitboardIterator_next(it) == Bitboard_pop(it)
BitboardIterator_next_back(it) == Bitboard_pop_back(it)
BitboardIterator_size_hint(it) == <<count_ones(it), Option_Some(count_ones(it))>>
BitboardIterator_len(it) == count_ones(it)

Bitboard_carry_rippler(bb) == [bitboard |-> bb, subset |-> EMPTY, first |-> TRUE]

\* CarryRippler::next without the first flag
CarryRippler_next_no_first(it) ==
    IF it.subset # EMPTY
    THEN [ret |-> Option_Some(it.subset),
          self |-> [it EXCEPT !.first = FALSE,
                              !.subset = wrapping_sub(it.subset, it.bitboard) \cap it.bitboard]]
    ELSE [ret |-> Option_None, self |-> it]

CarryRippler_next(it) ==
    IF it.subset # EMPTY \/ it.first
    THEN [ret |-> Option_Some(it.subset),
          self |-> [it EXCEPT !.first = FALSE,
                              !.subset = wrapping_sub(it.subset, it.bitboard) \cap it.bitboard]]
    ELSE [ret |-> Option_None, self |-> it]

\* Bitboard::new(self.bits() & !b.bits())
Bitboard_relative_complement(a, b) == a \ b

\* Bitboard::new(self.bits() ^ b.bits())
Bitboard_symmetric_difference(a, b) == (a \ b) \cup (b \ a)

\* self.relative_complement(b)
Bitboard_xor(a, b) == Bitboard_relative_complement(a, b)

\* impl BitXor for Bitboard: Self::from((self.0).bitxor(rhs))
Bitboard_bitxor(a, b) == {square \in 0..63 : (square \in a) # (square \in b)}

BitboardInit ==
    /\ BoardIdle
    /\ \E b \in Bitboards :
        \/ unit = [pc |-> "carry_rippler", b |-> b, it |-> Bitboard_carry_rippler(b),
                   items |-> <<>>, nones |-> 0]
        \/ unit = [pc |-> "into_iter", b |-> b, it |-> b,
                   front |-> <<>>, back |-> <<>>, nones |-> 0]
        \/ \E a \in Bitboards : unit = [pc |-> "operands", a |-> a, b |-> b]

\* a.xor(b), with a.symmetric_difference(b), a ^ b and b.xor(a) beside it
BitboardXor ==
    /\ unit.pc = "operands"
    /\ unit' = [pc |-> "xor", a |-> unit.a, b |-> unit.b,
                xor |-> Bitboard_xor(unit.a, unit.b),
                symmetric_difference |-> Bitboard_symmetric_difference(unit.a, unit.b),
                bitxor |-> Bitboard_bitxor(unit.a, unit.b),
                swapped |-> Bitboard_xor(unit.b, unit.a)]
    /\ UNCHANGED boardvars

\* rippler.next()
CarryRipplerNext ==
    /\ unit.pc = "carry_rippler"
    /\ unit.nones < MaxNones
    /\ LET r == CarryRippler_next(unit.it)
       IN unit' = IF r.ret.some
                  THEN [unit EXCEPT !.it = r.self, !.items = Append(@, r.ret.value)]
                  ELSE [unit EXCEPT !.it = r.self, !.nones = @ + 1]
    /\ UNCHANGED boardvars

\* iter.next()
IteratorNext ==
    /\ unit.pc = "into_iter"
    /\ unit.nones < MaxNones
    /\ LET r == BitboardIterator_next(unit.it)
       IN unit' = IF r.ret.some
                  THEN [unit EXCEPT !.it = r.self, !.front = Append(@, r.ret.value)]
                  ELSE [unit EXCEPT !.it = r.self, !.nones = @ + 1]
    /\ UNCHANGED boardvars

\* iter.next_back()
IteratorNextBack ==
    /\ unit.pc = "into_iter"
    /\ unit.nones < MaxNones
    /\ LET r == BitboardIterator_next_back(unit.it)
       IN unit' = IF r.ret.some
                  THEN [unit EXCEPT !.it = r.self, !.back = Append(@, r.ret.value)]
                  ELSE [unit EXCEPT !.it = r.self, !.nones = @ + 1]
    /\ UNCHANGED boardvars

BitboardNext == CarryRipplerNext \/ IteratorNext \/ IteratorNextBack \/ BitboardXor

SpecBitboard == BitboardInit /\ [][BitboardNext]_vars

SeqSet(seq) == {seq[i] : i \in 1..Len(seq)}
NoRepeats(seq) == \A i, j \in 1..Len(seq) : i # j => seq[i] # seq[j]

\* C14: the items of Bitboard(M).carry_rippler() are subsets of M, none twice,
\* the first the empty set; once next() has returned None there are
\* 2^popcount(M) of them (one when M = 0), the last is M, every subset of M is
\* among them, and every later next() returns None again.
C14_CarryRippler ==
    unit.pc = "carry_rippler" =>
        /\ \A i \in 1..Len(unit.items) : unit.items[i] \subseteq unit.b
        /\ NoRepeats(unit.items)
        /\ Len(unit.items) >= 1 => unit.items[1] = EMPTY
        /\ unit.nones > 0 =>
             /\ Len(unit.items) = 2 ^ Cardinality(unit.b)
             /\ unit.items[Len(unit.items)] = unit.b
             /\ SeqSet(unit.items) = SUBSET unit.b

C14_Witness ==
    /\ unit.pc = "carry_rippler"
    /\ unit.nones = MaxNones
    /\ {0, 32, 63} \subseteq unit.b
    /\ Len(unit.items) = 2 ^ Cardinality(unit.b)

\* the k lowest squares of b ascending, and the k highest descending
RECURSIVE Ascending(_, _)
Ascending(b, k) ==
    IF k = 0 \/ b = {} THEN <<>>
    ELSE LET low == CHOOSE s \in b : \A t \in b : s <= t
         IN <<low>> \o Ascending(b \ {low}, k - 1)

RECURSIVE Descending(_, _)
Descending(b, k) ==
    IF k = 0 \/ b = {} THEN <<>>
    ELSE LET high == CHOOSE s \in b : \A t \in b : t <= s
         IN <<high>> \o Descending(b \ {high}, k - 1)

\* C15: in any interleaving of next() and next_back() on b.into_iter(), next()
\* has yielded the lowest squares of b in ascending order and next_back() the
\* highest in descending order, no square twice; size_hint() and len() are the
\* number of squares not yet yielded; None comes only once every square of b
\* has been yielded.
C15_BitboardIterator ==
    unit.pc = "into_iter" =>
        /\ unit.front = Ascending(unit.b, Len(unit.front))
        /\ unit.back = Descending(unit.b, Len(unit.back))
        /\ SeqSet(unit.front) \cap SeqSet(unit.back) = {}
        /\ BitboardIterator_len(unit.it) = Cardinality(unit.b) - Len(unit.front) - Len(unit.back)
        /\ BitboardIterator_size_hint(unit.it)
             = <<Cardinality(unit.b) - Len(unit.front) - Len(unit.back),
                 Option_Some(Cardinality(unit.b) - Len(unit.front) - Len(unit.back))>>
        /\ unit.nones > 0 => SeqSet(unit.front) \cup SeqSet(unit.back) = unit.b

C15_Witness ==
    /\ unit.pc = "into_iter"
    /\ unit.nones > 0
    /\ Len(unit.front) = 2
    /\ Len(unit.back) = 2
    /\ 63 \in unit.b

(***************************************************************************)
(* gambit::board::moves (moves/core.rs, moves/shifts.rs, moves/builder.rs):*)
(* a MoveBuilder driven one setter at a time, then to_move and is_null.    *)
(***************************************************************************)
PieceType_Pawn == 0
PieceType_Knight == 1
PieceType_Bishop == 2
PieceType_Rook == 3
PieceType_Queen == 4
PieceType_King == 5
PieceType_None == 13

\* unsafe { transmute(index) }
PieceType_new(index) == index
PieceType_bits(piece) == piece

MoveShifts_Piece == 0
MoveShifts_From == 3
MoveShifts_To == 9
MoveShifts_Capture == 15
MoveShifts_Promotion == 18
MoveShifts_EnPassant == 21
MoveShifts_DoubleStep == 22
MoveShifts_Castling == 23

\* | and << on MoveUnderlyingType = u32; no operand of << reaches bit 32 (at
\* most 6 bits shifted by 9, at most 1 bit shifted by 23)
\* a | b on the low `width` bits: the lower half and the upper half
RECURSIVE bitor_width(_, _, _)
bitor_width(a, b, width) ==
    IF a = 0 THEN b
    ELSE IF b = 0 THEN a
    ELSE IF width = 1 THEN 1
    ELSE bitor_width(a % (2 ^ (width \div 2)), b % (2 ^ (width \div 2)), width \div 2)
         + (2 ^ (width \div 2))
           * bitor_width(a \div (2 ^ (width \div 2)), b \div (2 ^ (width \div 2)),
                         width - (width \div 2))

bitor(a, b) == bitor_width(a, b, 32)

shl32(a, n) == a * (2 ^ n)

gambit_Move_NULL_PIECE == 7

\* Move::new(0b0001_1111_1000_0000_0000_0111)
gambit_Move_NULL == 2 ^ 20 + 2 ^ 19 + 2 ^ 18 + 2 ^ 17 + 2 ^ 16 + 2 ^ 15 + 7

gambit_Move_field(m, shift, mask) == (m \div (2 ^ shift)) % (mask + 1)

gambit_Move_piece_type(bits) ==
    IF bits = gambit_Move_NULL_PIECE THEN PieceType_None ELSE PieceType_new(bits)

gambit_Move_piece(m) == gambit_Move_piece_type(gambit_Move_field(m, MoveShifts_Piece, 7))
gambit_Move_from(m) == gambit_Move_field(m, MoveShifts_From, 63)
gambit_Move_to(m) == gambit_Move_field(m, MoveShifts_To, 63)
gambit_Move_capture(m) == gambit_Move_piece_type(gambit_Move_field(m, MoveShifts_Capture, 7))
gambit_Move_promotion(m) == gambit_Move_piece_type(gambit_Move_field(m, MoveShifts_Promotion, 7))
gambit_Move_en_passant(m) == gambit_Move_field(m, MoveShifts_EnPassant, 1) = 1
gambit_Move_double_step(m) == gambit_Move_field(m, MoveShifts_DoubleStep, 1) = 1
gambit_Move_castling(m) == gambit_Move_field(m, MoveShifts_Castling, 1) = 1

\* self.from() as u8 == self.to() as u8
gambit_Move_is_null(m) == gambit_Move_from(m) = gambit_Move_to(m)

gambit_MoveBuilder_new ==
    [data |-> 0, piece_set |-> FALSE, from_set |-> FALSE, to_set |-> FALSE,
     capture_set |-> FALSE, promotion_set |-> FALSE]

gambit_MoveBuilder_piece_bits(piece) ==
    IF piece = PieceType_None THEN gambit_Move_NULL_PIECE ELSE PieceType_bits(piece)

gambit_MoveBuilder_piece(mb, piece) ==
    [mb EXCEPT !.piece_set = TRUE,
               !.data = bitor(@, shl32(gambit_MoveBuilder_piece_bits(piece), MoveShifts_Piece))]

gambit_MoveBuilder_from(mb, square) ==
    [mb EXCEPT !.data = bitor(@, shl32(square, MoveShifts_From)), !.from_set = TRUE]

gambit_MoveBuilder_to(mb, square) ==
    [mb EXCEPT !.data = bitor(@, shl32(square, MoveShifts_To)), !.to_set = TRUE]

\* MoveBuilder::capture leaving capture_set alone
gambit_MoveBuilder_capture_unflagged(mb, piece) ==
    [mb EXCEPT !.data = bitor(@, shl32(gambit_MoveBuilder_piece_bits(piece), MoveShifts_Capture))]

gambit_MoveBuilder_capture(mb, piece) ==
    [mb EXCEPT !.data = bitor(@, shl32(gambit_MoveBuilder_piece_bits(piece), MoveShifts_Capture)),
               !.capture_set = TRUE]

gambit_MoveBuilder_promotion(mb, piece) ==
    [mb EXCEPT !.data = bitor(@, shl32(gambit_MoveBuilder_piece_bits(piece), MoveShifts_Promotion)),
               !.promotion_set = TRUE]

gambit_MoveBuilder_flag(mb, value, shift) ==
    [mb EXCEPT !.data = bitor(@, shl32(IF value THEN 1 ELSE 0, shift))]

gambit_MoveBuilder_en_passant(mb, value) == gambit_MoveBuilder_flag(mb, value, MoveShifts_EnPassant)
gambit_MoveBuilder_double_step(mb, value) == gambit_MoveBuilder_flag(mb, value, MoveShifts_DoubleStep)
gambit_MoveBuilder_castling(mb, value) == gambit_MoveBuilder_flag(mb, value, MoveShifts_Castling)

\* MoveBuilder::to_move with the assert! left out
gambit_MoveBuilder_to_move_unasserted(mb, debug_assertions) ==
    [panicked |-> FALSE,
     move |-> bitor(bitor(mb.data,
                          IF mb.capture_set THEN 0
                          ELSE shl32(gambit_Move_NULL_PIECE, MoveShifts_Capture)),
                    IF mb.promotion_set THEN 0
                    ELSE shl32(gambit_Move_NULL_PIECE, MoveShifts_Promotion))]

\* assert!(!(cfg!(debug_assertions) && (!piece_set || !from_set || !to_set)), ..)
gambit_MoveBuilder_to_move(mb, debug_assertions) ==
    IF debug_assertions /\ (~mb.piece_set \/ ~mb.from_set \/ ~mb.to_set)
    THEN [panicked |-> TRUE, move |-> 0]
    ELSE [panicked |-> FALSE,
          move |-> bitor(bitor(mb.data,
                               IF mb.capture_set THEN 0
                               ELSE shl32(gambit_Move_NULL_PIECE, MoveShifts_Capture)),
                         IF mb.promotion_set THEN 0
                         ELSE shl32(gambit_Move_NULL_PIECE, MoveShifts_Promotion))]

\* the values handed to the setters: piece kinds and squares whose bits take
\* both values in every position
MovePieces == {PieceType_Pawn, PieceType_Bishop, PieceType_King, PieceType_None}
MoveSquares == {0, 21, 42, 63}

\* a fresh builder; the build is one with or without debug assertions
MoveInit ==
    /\ BoardIdle
    /\ \E debug_assertions \in BOOLEAN :
        unit = [pc |-> "building", debug_assertions |-> debug_assertions,
                builder |-> gambit_MoveBuilder_new, called |-> {},
                piece |-> PieceType_None, from |-> 0, to |-> 0,
                capture |-> PieceType_None, promotion |-> PieceType_None,
                en_passant |-> FALSE, double_step |-> FALSE, castling |-> FALSE,
                move |-> 0, null |-> FALSE]

Building(setter) == unit.pc = "building" /\ setter \notin unit.called

BuilderPiece ==
    /\ Building("piece")
    /\ \E piece \in MovePieces :
        unit' = [unit EXCEPT !.builder = gambit_MoveBuilder_piece(@, piece),
                             !.called = @ \cup {"piece"}, !.piece = piece]
    /\ UNCHANGED boardvars

BuilderFrom ==
    /\ Building("from")
    /\ \E square \in MoveSquares :
        unit' = [unit EXCEPT !.builder = gambit_MoveBuilder_from(@, square),
                             !.called = @ \cup {"from"}, !.from = square]
    /\ UNCHANGED boardvars

BuilderTo ==
    /\ Building("to")
    /\ \E square \in MoveSquares :
        unit' = [unit EXCEPT !.builder = gambit_MoveBuilder_to(@, square),
                             !.called = @ \cup {"to"}, !.to = square]
    /\ UNCHANGED boardvars

BuilderCapture ==
    /\ Building("capture")
    /\ \E piece \in MovePieces :
        unit' = [unit EXCEPT !.builder = gambit_MoveBuilder_capture(@, piece),
                             !.called = @ \cup {"capture"}, !.capture = piece]
    /\ UNCHANGED boardvars

BuilderPromotion ==
    /\ Building("promotion")
    /\ \E piece \in MovePieces :
        unit' = [unit EXCEPT !.builder = gambit_MoveBuilder_promotion(@, piece),
                             !.called = @ \cup {"promotion"}, !.promotion = piece]
    /\ UNCHANGED boardvars

BuilderEnPassant ==
    /\ Building("en_passant")
    /\ \E value \in BOOLEAN :
        unit' = [unit EXCEPT !.builder = gambit_MoveBuilder_en_passant(@, value),
                             !.called = @ \cup {"en_passant"}, !.en_passant = value]
    /\ UNCHANGED boardvars

BuilderDoubleStep ==
    /\ Building("double_step")
    /\ \E value \in BOOLEAN :
        unit' = [unit EXCEPT !.builder = gambit_MoveBuilder_double_step(@, value),
                             !.called = @ \cup {"double_step"}, !.double_step = value]
    /\ UNCHANGED boardvars

BuilderCastling ==
    /\ Building("castling")
    /\ \E value \in BOOLEAN :
        unit' = [unit EXCEPT !.builder = gambit_MoveBuilder_castling(@, value),
                             !.called = @ \cup {"castling"}, !.castling = value]
    /\ UNCHANGED boardvars

BuilderToMove ==
    /\ unit.pc = "building"
    /\ LET r == gambit_MoveBuilder_to_move(unit.builder, unit.debug_assertions)
       IN unit' = IF r.panicked THEN [unit EXCEPT !.pc = "panicked"]
                  ELSE [unit EXCEPT !.pc = "moved", !.move = r.move]
    /\ UNCHANGED boardvars

MoveIsNull ==
    /\ unit.pc = "moved"
    /\ unit' = [unit EXCEPT !.pc = "asked", !.null = gambit_Move_is_null(unit.move)]
    /\ UNCHANGED boardvars

MoveNext ==
    \/ BuilderPiece \/ BuilderFrom \/ BuilderTo \/ BuilderCapture \/ BuilderPromotion
    \/ BuilderEnPassant \/ BuilderDoubleStep \/ BuilderCastling
    \/ BuilderToMove \/ MoveIsNull

SpecMove == MoveInit /\ [][MoveNext]_vars

ToMoveCalled == unit.pc \in {"moved", "asked", "panicked"}
RequiredSet == {"piece", "from", "to"} \subseteq unit.called

\* C16 as stated: to_move on a builder that misses one of piece, from and to
\* panics instead of returning a Move.
C16_Original ==
    (ToMoveCalled /\ ~RequiredSet) => unit.pc = "panicked"

\* C16 (amended): in a build with debug assertions, to_move on a builder that
\* misses one of piece, from and to panics instead of returning a Move.
C16_ToMovePanicsInDebug ==
    (ToMoveCalled /\ ~RequiredSet /\ unit.debug_assertions) => unit.pc = "panicked"

C16_Witness ==
    /\ unit.pc = "panicked"
    /\ unit.debug_assertions
    /\ unit.called = {"from", "to", "capture"}

\* the bits a field of the given shift and width takes
FieldBits(shift, width) == shift..(shift + width - 1)

MoveFields ==
    {FieldBits(MoveShifts_Piece, 3), FieldBits(MoveShifts_From, 6), FieldBits(MoveShifts_To, 6),
     FieldBits(MoveShifts_Capture, 3), FieldBits(MoveShifts_Promotion, 3),
     FieldBits(MoveShifts_EnPassant, 1), FieldBits(MoveShifts_DoubleStep, 1),
     FieldBits(MoveShifts_Castling, 1)}

\* C17: a Move built by a fresh builder with piece, from and to set, each
\* setter called at most once, decodes to the values supplied; capture and
\* promotion decode to None and a flag to false when its setter was not
\* called; the eight fields take pairwise disjoint bits.
C17_BuilderRoundTrip ==
    (unit.pc \in {"moved", "asked"} /\ RequiredSet) =>
        /\ gambit_Move_piece(unit.move) = unit.piece
        /\ gambit_Move_from(unit.move) = unit.from
        /\ gambit_Move_to(unit.move) = unit.to
        /\ gambit_Move_capture(unit.move) = unit.capture
        /\ gambit_Move_promotion(unit.move) = unit.promotion
        /\ gambit_Move_en_passant(unit.move) = unit.en_passant
        /\ gambit_Move_double_step(unit.move) = unit.double_step
        /\ gambit_Move_castling(unit.move) = unit.castling
        /\ "capture" \notin unit.called => gambit_Move_capture(unit.move) = PieceType_None
        /\ "promotion" \notin unit.called => gambit_Move_promotion(unit.move) = PieceType_None
        /\ "en_passant" \notin unit.called => ~gambit_Move_en_passant(unit.move)
        /\ Cardinality(MoveFields) = 8
        /\ \A f, g \in MoveFields : f # g => f \cap g = {}

C17_Witness ==
    /\ unit.pc = "moved"
    /\ unit.called = {"piece", "from", "to", "capture", "en_passant", "castling"}
    /\ unit.piece = PieceType_Pawn
    /\ unit.from = 42
    /\ unit.to = 21
    /\ unit.capture = PieceType_Bishop
    /\ unit.en_passant
    /\ ~unit.castling

\* C18: is_null() returns true for Move::NULL and false for every other Move.
C18_IsNullOnlyNull ==
    unit.pc = "asked" => (unit.null <=> unit.move = gambit_Move_NULL)

(***************************************************************************)
(* Board::from_fen of both trees, applied to FEN records whose piece       *)
(* placement is put together from sample ranks: the parser of              *)
(* src/board/fen.rs behind old/src_old_2/board.rs, and gambit's            *)
(* board/fen/parser.rs behind gambit's board/core.rs.                      *)
(***************************************************************************)
\* the most ranks a sampled piece placement has
MaxFenRanks == 9

TopRanks == {<<"4", "k", "3">>, <<"8">>, <<"r", "n", "b", "q", "k", "b", "n", "r", "r">>}
MiddleRanks == {<<"8">>, <<"p", "7">>, <<"8", "p">>, <<"7">>, <<"7", "x">>}
BottomRanks == {<<"4", "K", "3">>, <<"8">>, <<"4", "K", "3", "R">>, <<"4", "K", "2">>}

RECURSIVE JoinRanks(_)
JoinRanks(ranks) ==
    IF Len(ranks) = 1 THEN ranks[1]
    ELSE ranks[1] \o <<"/">> \o JoinRanks(Tail(ranks))

\* a top rank, some empty ranks, a middle rank and a bottom rank
FenRanks ==
    {<<top>> \o [i \in 1..empty |-> <<"8">>] \o <<middle, bottom>> :
        top \in TopRanks, middle \in MiddleRanks, bottom \in BottomRanks,
        empty \in 0..(MaxFenRanks - 3)}

\* the castling fields sampled: all rights, none, and Black's only
FenCastlings == {<<"K", "Q", "k", "q">>, <<"-">>, <<"k", "q">>}

FenOf(ranks, side, castling) ==
    <<JoinRanks(ranks), side, castling, <<"-">>, <<"0">>, <<"1">>>>

\* Fen::EMPTY (gambit/src/board/fen/string.rs)
Fen_EMPTY ==
    <<JoinRanks([i \in 1..8 |-> <<"8">>]), <<"w">>, <<"-">>, <<"-">>, <<"0">>, <<"1">>>>

gambit_Board_default ==
    [piece_bitboards |-> (WHITE :> NO_PIECES @@ BLACK :> NO_PIECES),
     side_bitboards |-> (WHITE :> EMPTY @@ BLACK :> EMPTY)]

UpperPieceChars == {"K", "Q", "R", "B", "N", "P"}
LowerPieceChars == {"k", "q", "r", "b", "n", "p"}

\* File::offset and Rank::offset: None outside 0..=7
Coordinate_offset(value, rhs) ==
    IF value + rhs \in 0..7 THEN Option_Some(value + rhs) ELSE Option_None

\* FenParser::parse_piece_placement, the body of the loop for one character
gambit_parse_piece_placement_char(char, rank, file, is_at_end, b) ==
    LET square == file + rank * 8
        colour == IF char \in UpperPieceChars THEN WHITE ELSE BLACK
        error == [error |-> "InvalidPiecePlacement"]
    IN CASE char \in UpperPieceChars \cup LowerPieceChars ->
              [error |-> "", rank |-> rank,
               file |-> IF file = Files_H THEN file ELSE Coordinate_offset(file, 1).value,
               is_at_end |-> is_at_end \/ file = Files_H,
               b |-> [b EXCEPT !.piece_bitboards[colour][PieceOfChar(char)] = @ \cup {square},
                               !.side_bitboards[colour] = @ \cup {square}]]
         [] char \in {"1", "2", "3", "4", "5", "6", "7", "8"} ->
              IF file + DigitOfChar(char) = 8
              THEN [error |-> "", rank |-> rank, file |-> file, is_at_end |-> TRUE, b |-> b]
              ELSE IF ~Coordinate_offset(file, DigitOfChar(char)).some THEN error
              ELSE [error |-> "", rank |-> rank,
                    file |-> Coordinate_offset(file, DigitOfChar(char)).value,
                    is_at_end |-> is_at_end, b |-> b]
         [] char = "/" ->
              IF ~is_at_end \/ ~Coordinate_offset(rank, -1).some THEN error
              ELSE [error |-> "", rank |-> Coordinate_offset(rank, -1).value,
                    file |-> Files_A, is_at_end |-> FALSE, b |-> b]
         [] OTHER -> error

\* the loop over placement[from..until], entered in state `at`: the first
\* half of the characters, then the second from where the first half ended;
\* an error ends the loop
RECURSIVE gambit_parse_piece_placement_loop(_, _, _, _)
gambit_parse_piece_placement_loop(placement, from, until, at) ==
    IF at.error # "" \/ from > until THEN at
    ELSE IF from = until
    THEN gambit_parse_piece_placement_char(placement[from], at.rank, at.file, at.is_at_end, at.b)
    ELSE gambit_parse_piece_placement_loop(placement, ((from + until) \div 2) + 1, until,
            gambit_parse_piece_placement_loop(placement, from, (from + until) \div 2, at))

\* the loop, and the check of is_at_end after it
gambit_parse_piece_placement(placement, b) ==
    LET at == gambit_parse_piece_placement_loop(placement, 1, Len(placement),
                [error |-> "", rank |-> R8, file |-> Files_A, is_at_end |-> FALSE, b |-> b])
    IN IF at.error # "" THEN [ok |-> FALSE, value |-> at.error]
       ELSE IF at.is_at_end THEN [ok |-> TRUE, value |-> at.b]
       ELSE [ok |-> FALSE, value |-> "InvalidPiecePlacement"]

gambit_parse_active_colour(active_colour) ==
    IF active_colour = <<"w">> THEN [ok |-> TRUE, value |-> WHITE]
    ELSE IF active_colour = <<"b">> THEN [ok |-> TRUE, value |-> BLACK]
    ELSE [ok |-> FALSE, value |-> "InvalidActiveColor"]

\* the rights as the set of their letters
gambit_parse_castling_rights(castling_rights) ==
    IF \A i \in 1..Len(castling_rights) : castling_rights[i] \in {"K", "Q", "k", "q"}
    THEN [ok |-> TRUE, value |-> {castling_rights[i] : i \in 1..Len(castling_rights)}]
    ELSE [ok |-> FALSE, value |-> "InvalidCastlingRights"]

gambit_parse_en_passant_square(en_passant_targets) ==
    IF en_passant_targets = <<"-">> THEN [ok |-> TRUE, value |-> None]
    ELSE IF /\ Len(en_passant_targets) = 2
            /\ en_passant_targets[1] \in {"a", "b", "c", "d", "e", "f", "g", "h"}
            /\ en_passant_targets[2] \in {"1", "2", "3", "4", "5", "6", "7", "8"}
    THEN [ok |-> TRUE, value |-> from_algebraic_notation(en_passant_targets)]
    ELSE [ok |-> FALSE, value |-> "InvalidEnPassantSquare"]

gambit_Board_from_fen(fen) ==
    LET active_colour == gambit_parse_active_colour(fen[2])
        castling == gambit_parse_castling_rights(fen[3])
        ep == gambit_parse_en_passant_square(fen[4])
        hmc == parse_u8(fen[5])
        fmn == parse_u8(fen[6])
    IN IF ~active_colour.ok THEN active_colour
       ELSE IF ~castling.ok THEN castling
       ELSE IF ~ep.ok THEN ep
       ELSE IF ~hmc.ok THEN [ok |-> FALSE, value |-> "InvalidHalfmoveClock"]
       ELSE IF ~fmn.ok THEN [ok |-> FALSE, value |-> "InvalidFullmoveNumber"]
       ELSE LET parsed == [active_colour |-> active_colour.value,
                          castling_availability |-> castling.value,
                          en_passant_square |-> ep.value,
                          halfmove_clock |-> hmc.value,
                          fullmove_number |-> fmn.value]
                placed == gambit_parse_piece_placement(fen[1], gambit_Board_default)
            IN IF ~placed.ok THEN placed
               ELSE [ok |-> TRUE,
                     value |-> [state |-> parsed,
                                piece_bitboards |-> placed.value.piece_bitboards,
                                side_bitboards |-> placed.value.side_bitboards]]

FenInit ==
    /\ BoardIdle
    /\ \E ranks \in FenRanks, side \in {<<"w">>, <<"b">>}, castling \in FenCastlings :
        unit = [pc |-> "fen", ranks |-> ranks, fen |-> FenOf(ranks, side, castling),
                result |-> [ok |-> FALSE, value |-> "none"]]

\* Board::from_fen (old/src_old_2/board.rs)
FromFen ==
    /\ unit.pc = "fen"
    /\ unit' = [unit EXCEPT !.pc = "from_fen", !.result = from_fen(unit.fen)]
    /\ UNCHANGED boardvars

\* Board::from_fen (gambit/src/board/core.rs)
GambitFromFen ==
    /\ unit.pc = "fen"
    /\ unit' = [unit EXCEPT !.pc = "gambit_from_fen", !.result = gambit_Board_from_fen(unit.fen)]
    /\ UNCHANGED boardvars

FenNext == FromFen \/ GambitFromFen

SpecFen == FenInit /\ [][FenNext]_vars

\* C19: a Board that from_fen returns has each side bitboard the union of its
\* piece bitboards, the two side bitboards disjoint, piece_list naming on each
\* square the one kind whose bitboard holds it (None if none does), one king a
\* side, and the zobrist key computed from scratch.
C19_FromFenInvariants ==
    (unit.pc = "from_fen" /\ unit.result.ok) =>
        LET b == unit.result.value
        IN /\ \A c \in Sides_ALL :
                b.side_bitboards[c] = UNION {b.piece_bitboards[c][k] : k \in Pieces_ALL}
           /\ b.side_bitboards[WHITE] \cap b.side_bitboards[BLACK] = {}
           /\ \A s \in Squares_ALL :
                LET kinds == {k \in Pieces_ALL :
                                s \in b.piece_bitboards[WHITE][k] \cup b.piece_bitboards[BLACK][k]}
                IN IF kinds = {} THEN b.piece_list[s] = Pieces_NONE
                   ELSE kinds = {b.piece_list[s]}
           /\ \A c \in Sides_ALL : Cardinality(b.piece_bitboards[c][KING]) = 1
           /\ b.state.zobrist_key
                = get_zobrist_key(b.piece_bitboards, b.state.side_to_move,
                                  b.state.castling_availability, b.state.en_passant_square)

\* the squares a rank of a piece placement describes, -1 with a character
\* that is neither a piece letter nor a digit 1-8
RECURSIVE RankSquares(_)
RankSquares(rank) ==
    IF rank = <<>> THEN 0
    ELSE LET rest == RankSquares(Tail(rank))
         IN IF rest < 0 THEN -1
            ELSE IF Head(rank) \in UpperPieceChars \cup LowerPieceChars THEN 1 + rest
            ELSE IF Head(rank) \in {"1", "2", "3", "4", "5", "6", "7", "8"}
            THEN DigitOfChar(Head(rank)) + rest
            ELSE -1

EightByEight(ranks) == Len(ranks) = 8 /\ \A i \in 1..Len(ranks) : RankSquares(ranks[i]) = 8

\* C20: gambit's Board::from_fen returns Err(InvalidPiecePlacement) for every
\* piece placement that is not eight ranks of eight squares each.
C20_PlacementRejected ==
    (unit.pc = "gambit_from_fen" /\ ~EightByEight(unit.ranks)) =>
        (~unit.result.ok /\ unit.result.value = "InvalidPiecePlacement")

\* C30: gambit's Board::from_fen returns Ok for every well-formed FEN whose
\* castling field is "-", with empty castling rights, and
\* Board::from_fen(Fen::EMPTY) succeeds with a board holding no pieces
C30_DashCastlingAccepted ==
    (unit.pc = "gambit_from_fen" /\ unit.fen[3] = <<"-">> /\ EightByEight(unit.ranks)) =>
        /\ unit.result.ok
        /\ unit.result.value.state.castling_availability = {}
        /\ unit.fen = Fen_EMPTY =>
              \A c \in Sides_ALL : unit.result.value.side_bitboards[c] = EMPTY

\* every FEN with the castling field "-" is turned down for that field
C30_DashCastlingRejected ==
    (unit.pc = "gambit_from_fen" /\ unit.fen[3] = <<"-">>) =>
        (~unit.result.ok /\ unit.result.value = "InvalidCastlingRights")

\* the same placements with letters in the castling field are accepted
C30_LettersAccepted ==
    (unit.pc = "gambit_from_fen" /\ unit.fen[3] # <<"-">> /\ EightByEight(unit.ranks)) =>
        /\ unit.result.ok
        /\ unit.result.value.state.castling_availability
             = {unit.fen[3][i] : i \in 1..Len(unit.fen[3])}

(***************************************************************************)
(* Bitboard::xor (gambit/src/bitboard/ops.rs)                              *)
(***************************************************************************)
\* C21: for all bitboards a and b, a.xor(b) equals a.symmetric_difference(b)
\* and a ^ b, and a.xor(b) = b.xor(a)
C21_XorIsExclusiveOr ==
    unit.pc = "xor" =>
        /\ unit.xor = unit.symmetric_difference
        /\ unit.xor = unit.bitxor
        /\ unit.xor = unit.swapped

(***************************************************************************)
(* make_move: the en-passant square, the castling rights and the clocks    *)
(***************************************************************************)
\* a pawn move spanning 16 squares
PawnDoubleStep(m) ==
    /\ Move_piece(m) = PAWN
    /\ Move_to(m) - Move_from(m) \in {16, -16}

\* the square a double-stepping pawn of side `us` passed over
SquareBehind(us, to) == IF us = WHITE THEN to - 8 ELSE to + 8

\* C22: after a make_move that returns true, state.en_passant_square is
\* present if and only if the move was a pawn double step, and then it is the
\* square behind the destination on the same file; every other accepted move
\* leaves it absent, whatever it was before
C22_EnPassantAfterMake ==
    MadeLegal =>
        /\ (state.en_passant_square # None) <=> PawnDoubleStep(last.m)
        /\ PawnDoubleStep(last.m) =>
              /\ state.en_passant_square = SquareBehind(last.before.side_to_move, Move_to(last.m))
              /\ state.en_passant_square % 8 = Move_to(last.m) % 8

\* a double step answered by a double step, and a double step answered by
\* another move: the square of the first is gone in both
C22_Witness ==
    /\ MadeLegal
    /\ last.before.en_passant_square # None
    /\ PawnDoubleStep(last.m)
    /\ state.en_passant_square # last.before.en_passant_square

C22_WitnessCleared ==
    /\ MadeLegal
    /\ last.before.en_passant_square # None
    /\ ~PawnDoubleStep(last.m)
    /\ state.en_passant_square = None

\* the castling rights with the side they belong to, the home square of its
\* king, the corner of its rook, and where king and rook land
CastlingRights ==
    {[right |-> WHITE_KING, side |-> WHITE, king |-> E1, rook |-> H1, king_to |-> G1, rook_to |-> F1],
     [right |-> WHITE_QUEEN, side |-> WHITE, king |-> E1, rook |-> A1, king_to |-> C1, rook_to |-> D1],
     [right |-> BLACK_KING, side |-> BLACK, king |-> E8, rook |-> H8, king_to |-> G8, rook_to |-> F8],
     [right |-> BLACK_QUEEN, side |-> BLACK, king |-> E8, rook |-> A8, king_to |-> C8, rook_to |-> D8]}

HasRight(castling_availability, right) == And4(castling_availability, right) # 0

\* C23: in every position reached from the starting position through
\* make_move and unmake_move, a castling right that is set has the king of its
\* side on E1/E8 and a rook of its side on the corner; and every castling
\* move accepted by make_move lands the king on G1/C1/G8/C8 and moves a rook
\* that stood on the matching corner
C23_CastlingRightsBacked ==
    /\ \A c \in CastlingRights :
          HasRight(state.castling_availability, c.right) =>
              /\ c.king \in piece_bitboards[c.side][KING]
              /\ c.rook \in piece_bitboards[c.side][ROOK]
    /\ (MadeLegal /\ Move_castling(last.m)) =>
          \E c \in CastlingRights :
              /\ c.side = last.before.side_to_move
              /\ Move_to(last.m) = c.king_to
              /\ c.rook \in last.before.piece_bitboards[c.side][ROOK]
              /\ c.king_to \in piece_bitboards[c.side][KING]
              /\ c.rook_to \in piece_bitboards[c.side][ROOK]
              /\ c.rook \notin piece_bitboards[c.side][ROOK]

\* a rook is taken on its corner while its right was set, and the right is gone
C23_Witness ==
    /\ MadeLegal
    /\ Move_capture(last.m) = ROOK
    /\ \E c \in CastlingRights :
          /\ Move_to(last.m) = c.rook
          /\ HasRight(last.before.castling_availability, c.right)
          /\ ~HasRight(state.castling_availability, c.right)

C23_WitnessCastled ==
    /\ MadeLegal
    /\ Move_castling(last.m)
    /\ Move_to(last.m) = C8

(***************************************************************************)
(* The u8 counters of State under make_move (old/src_old_2/board.rs): a    *)
(* driver that loads a position with any accepted clocks and plays moves.  *)
(* `+= 1` on a u8 holding 255 panics in a build with overflow checks and   *)
(* wraps to 0 in a build without them.                                     *)
(***************************************************************************)
MaxClockPly == 2

\* the clock fields a loaded position carries
ClockTexts == {<<"0">>, <<"3">>, <<"2", "5", "4">>, <<"2", "5", "5">>}

\* kings, a knight each, a black pawn on its home square beside a white pawn
\* on its fifth rank, and a black pawn the white knight can take
ClockFen(side, half_move_clock, full_move_number) ==
    <<<<"4", "k", "3", "/", "3", "p", "4", "/", "8", "/", "4", "P", "3", "/", "8", "/",
        "2", "p", "3", "n", "1", "/", "8", "/", "1", "N", "2", "K", "3">>,
      side, <<"-">>, <<"-">>, half_move_clock, full_move_number>>

ClockInit ==
    /\ \E side \in {<<"w">>, <<"b">>}, half_move_clock \in ClockTexts,
          full_move_number \in ClockTexts, overflow_checks \in BOOLEAN :
        LET r == from_fen(ClockFen(side, half_move_clock, full_move_number))
        IN /\ r.ok
           /\ InitBoard(r.value)
           /\ last = [op |-> "init", m |-> Move_NULL, legal |-> TRUE, exposed |-> FALSE,
                      before |-> View(r.value)]
           /\ unit = [pc |-> "clock", overflow_checks |-> overflow_checks]
    /\ crashed = FALSE
    /\ shadow = <<>>
    /\ pf = [pc |-> "idle"]

\* self.state.half_move_clock += 1 or self.state.full_move_number += 1 meets 255
increment_overflows(b) ==
    \/ b.state.half_move_clock = 255
    \/ b.state.side_to_move = BLACK /\ b.state.full_move_number = 255

\* board.make_move(m) with a generated move: a panic where an increment
\* overflows under overflow checks, else the move with the counters wrapped
ClockMakeMove ==
    /\ unit.pc = "clock"
    /\ ~crashed
    /\ Len(history) < MaxClockPly
    /\ LET b == Board
       IN \E m \in MovesOf(generate_moves(b)) :
            IF unit.overflow_checks /\ increment_overflows(b)
            THEN /\ crashed' = TRUE
                 /\ last' = [op |-> "panic", m |-> m, legal |-> FALSE, exposed |-> FALSE,
                             before |-> View(b), overflow |-> TRUE]
                 /\ UNCHANGED <<piece_bitboards, side_bitboards, piece_list, state, history,
                                shadow>>
            ELSE LET r == make_move(b, m)
                 IN /\ SetBoard(r.board)
                    /\ last' = [op |-> "make", m |-> m, legal |-> r.is_legal,
                                exposed |-> ~r.is_legal, before |-> View(b),
                                overflow |-> increment_overflows(b)]
                    /\ shadow' = IF r.is_legal THEN Append(shadow, [view |-> View(b), m |-> m])
                                 ELSE shadow
                    /\ UNCHANGED crashed
    /\ UNCHANGED <<pf, unit>>

SpecClock == ClockInit /\ [][ClockMakeMove]_vars

\* a capture (an en-passant capture included) or a pawn move
CaptureOrPawnMove(m) ==
    Move_capture(m) # Pieces_NONE \/ Move_en_passant(m) \/ Move_piece(m) = PAWN

\* C24: after a make_move that returns true, halfmove_clock is 0 if the move
\* was a capture (an en-passant capture included) or a pawn move, and
\* otherwise the halfmove_clock before the move plus one
C24_HalfmoveClock ==
    MadeLegal =>
        state.half_move_clock =
            IF CaptureOrPawnMove(last.m) THEN 0 ELSE last.before.half_move_clock + 1

\* the same for a clock that was below 255 before the move
C24_HalfmoveClockBelowMax ==
    (MadeLegal /\ last.before.half_move_clock < 255) =>
        state.half_move_clock =
            IF CaptureOrPawnMove(last.m) THEN 0 ELSE last.before.half_move_clock + 1

\* C29: make_move never overflows the 8-bit counters: from every position
\* whose clocks from_fen accepted (0..255) no make_move panics on an
\* increment or wraps one around, and fullmove_number grows by exactly one
\* after each accepted Black move and is unchanged after each White move
C29_CountersNeverOverflow ==
    /\ last.op # "panic"
    /\ last.op = "make" =>
          /\ ~last.overflow
          /\ last.legal =>
                state.full_move_number =
                    last.before.full_move_number
                    + (IF last.before.side_to_move = BLACK THEN 1 ELSE 0)

(***************************************************************************)
(* is_square_attacked (movegen.rs)                                         *)
(***************************************************************************)
\* the five intersections of the square-attack oracle, each as a truth value
AttackedByKing(b, attacker, sq) ==
    (KING_MOVES[sq] \cap b.piece_bitboards[attacker][KING]) # {}

AttackedByKnight(b, attacker, sq) ==
    (KNIGHT_MOVES[sq] \cap b.piece_bitboards[attacker][KNIGHT]) # {}

AttackedByPawn(b, attacker, sq) ==
    (PAWN_CAPTURES[1 - attacker][sq] \cap b.piece_bitboards[attacker][PAWN]) # {}

AttackedOnLines(b, attacker, sq) ==
    (get_rook_moves(sq, occupancy(b))
        \cap (b.piece_bitboards[attacker][ROOK] \cup b.piece_bitboards[attacker][QUEEN])) # {}

AttackedOnDiagonals(b, attacker, sq) ==
    (get_bishop_moves(sq, occupancy(b))
        \cap (b.piece_bitboards[attacker][BISHOP] \cup b.piece_bitboards[attacker][QUEEN])) # {}

\* the boards the oracle is asked about: the positions of the perft tests
AttackInit ==
    /\ \E t \in PerftTests, attacker \in Sides_ALL, square \in Squares_ALL :
        LET r == from_fen(t.fen)
            b == play_moves(r.value, t.moves)
        IN /\ r.ok
           /\ InitBoard(b)
           /\ last = [op |-> "init", m |-> Move_NULL, legal |-> TRUE, exposed |-> FALSE,
                      before |-> View(r.value)]
           /\ unit = [pc |-> "attack", attacker |-> attacker, square |-> square,
                      attacked |-> FALSE]
    /\ crashed = FALSE
    /\ shadow = <<>>
    /\ pf = [pc |-> "idle"]

\* self.move_generator.is_square_attacked(&board, attacker, square)
IsSquareAttacked ==
    /\ unit.pc = "attack"
    /\ unit' = [unit EXCEPT !.pc = "attacked",
                            !.attacked = is_square_attacked(Board, unit.attacker, unit.square)]
    /\ UNCHANGED boardvars

SpecAttack == AttackInit /\ [][IsSquareAttacked]_vars

\* C25: for every board, attacker colour and square sq, is_square_attacked is
\* true if and only if the king table of sq meets the attacker's king, or the
\* knight table its knights, or the reverse-colour pawn-capture table its
\* pawns, or the rook attack set of sq under the total occupancy meets its
\* rooks or queens, or the bishop attack set its bishops or queens
C25_SquareAttackOracle ==
    unit.pc = "attacked" =>
        (unit.attacked <=>
            \/ AttackedByKing(Board, unit.attacker, unit.square)
            \/ AttackedByKnight(Board, unit.attacker, unit.square)
            \/ AttackedByPawn(Board, unit.attacker, unit.square)
            \/ AttackedOnLines(Board, unit.attacker, unit.square)
            \/ AttackedOnDiagonals(Board, unit.attacker, unit.square))

\* a square attacked by a queen alone, along a file or rank
C25_Witness ==
    /\ unit.pc = "attacked"
    /\ unit.attacked
    /\ (get_rook_moves(unit.square, occupancy(Board))
           \cap Board.piece_bitboards[unit.attacker][QUEEN]) # {}
    /\ (get_rook_moves(unit.square, occupancy(Board))
           \cap Board.piece_bitboards[unit.attacker][ROOK]) = {}
    /\ ~AttackedByKing(Board, unit.attacker, unit.square)
    /\ ~AttackedByKnight(Board, unit.attacker, unit.square)
    /\ ~AttackedByPawn(Board, unit.attacker, unit.square)
    /\ ~AttackedOnDiagonals(Board, unit.attacker, unit.square)

\* a square attacked by a pawn alone
C25_WitnessPawn ==
    /\ unit.pc = "attacked"
    /\ unit.attacked
    /\ AttackedByPawn(Board, unit.attacker, unit.square)
    /\ ~AttackedByKing(Board, unit.attacker, unit.square)
    /\ ~AttackedByKnight(Board, unit.attacker, unit.square)
    /\ ~AttackedOnLines(Board, unit.attacker, unit.square)
    /\ ~AttackedOnDiagonals(Board, unit.attacker, unit.square)

\* a square no piece of the attacker reaches
C25_WitnessSafe == unit.pc = "attacked" /\ ~unit.attacked

(***************************************************************************)
(* cast_ray (movegen/init.rs), asked for an origin, a direction and a      *)
(* blocker set                                                             *)
(***************************************************************************)
MaxRayBlockers == 2

\* the squares blockers are drawn from: corners, edges and the centre
RayBlockerSquares == {0, 3, 7, 24, 27, 28, 31, 35, 36, 56, 59, 63}

RayBlockers == {B \in SUBSET RayBlockerSquares : Cardinality(B) <= MaxRayBlockers}

RayInit ==
    /\ BoardIdle
    /\ \E origin \in Squares_ALL, direction \in Directions_ALL, blockers \in RayBlockers :
        unit = [pc |-> "ray", origin |-> origin, direction |-> direction,
                blockers |-> blockers, ray |-> EMPTY]

\* MoveGenerator::cast_ray::<DIRECTION>(blocker_board, square)
CastRay ==
    /\ unit.pc = "ray"
    /\ unit' = [unit EXCEPT !.pc = "cast",
                            !.ray = cast_ray(unit.direction, unit.blockers, unit.origin)]
    /\ UNCHANGED boardvars

SpecRay == RayInit /\ [][CastRay]_vars

\* the step of a direction in ranks and files
RankStep(direction) ==
    CASE direction \in {NORTH, NORTH_EAST, NORTH_WEST} -> 1
      [] direction \in {SOUTH, SOUTH_EAST, SOUTH_WEST} -> -1
      [] OTHER -> 0

FileStep(direction) ==
    CASE direction \in {EAST, NORTH_EAST, SOUTH_EAST} -> 1
      [] direction \in {WEST, NORTH_WEST, SOUTH_WEST} -> -1
      [] OTHER -> 0

\* k steps from the origin are still on the board
OnBoard(origin, direction, k) ==
    /\ (origin \div 8) + k * RankStep(direction) \in 0..7
    /\ (origin % 8) + k * FileStep(direction) \in 0..7

StepSquare(origin, direction, k) ==
    8 * ((origin \div 8) + k * RankStep(direction)) + (origin % 8) + k * FileStep(direction)

\* the squares met stepping from the origin up to and including the first
\* blocker, or up to the edge
SquaresMet(origin, direction, blockers) ==
    {StepSquare(origin, direction, k) : k \in
        {k \in 1..7 : /\ OnBoard(origin, direction, k)
                       /\ \A j \in 1..(k - 1) :
                             StepSquare(origin, direction, j) \notin blockers}}

\* C26: for every origin, each of the eight directions and every blocker set
\* B, cast_ray returns exactly the squares met stepping from the origin in
\* that direction up to and including the first square in B, or up to the
\* board edge: never the origin, nothing past the first blocker, no wrap
\* around a file or rank edge
C26_CastRay ==
    unit.pc = "cast" =>
        /\ unit.ray = SquaresMet(unit.origin, unit.direction, unit.blockers)
        /\ unit.origin \notin unit.ray
        /\ unit.ray \subseteq Squares_ALL
        /\ Cardinality(unit.ray \cap unit.blockers) <= 1

\* a ray that stops on a blocker short of the edge, with a blocker on the
\* origin itself
C26_Witness ==
    /\ unit.pc = "cast"
    /\ unit.origin \in unit.blockers
    /\ Cardinality(unit.ray) = 3
    /\ unit.ray \cap unit.blockers # {}
    /\ unit.ray # SquaresMet(unit.origin, unit.direction, {})

(***************************************************************************)
(* The UCI front-end (uci.rs) and the engine thread (search.rs), started   *)
(* by main (main.rs) and joined by two unbounded channels; the stdin       *)
(* thread hands the typed lines to the front-end over a third.  A panic of *)
(* the main thread, or its return from main, ends the process.             *)
(***************************************************************************)
\* the most lines typed in one run
MaxUciLines == 3

Line(command, args, fen) == [command |-> command, args |-> args, fen |-> fen]

\* the lines typed: the commands of handle_incoming_stdin, `position fen`
\* with the FEN of a perft position
UciLines ==
    {Line("uci", <<>>, <<>>), Line("isready", <<>>, <<>>), Line("debug", <<>>, <<>>),
     Line("position", <<"startpos">>, <<>>), Line("position", <<"fen">>, CPW_POS_3_FEN),
     Line("go", <<"infinite">>, <<>>), Line("go", <<"ponder">>, <<>>),
     Line("stop", <<>>, <<>>), Line("ucinewgame", <<>>, <<>>), Line("quit", <<>>, <<>>)}

RECURSIVE UciScripts(_)
UciScripts(n) ==
    IF n = 0 THEN {<<>>}
    ELSE UciScripts(n - 1)
         \cup {Append(script, line) : script \in {t \in UciScripts(n - 1) : Len(t) = n - 1},
                                      line \in UciLines}

Message(kind, option, fen) == [kind |-> kind, option |-> option, fen |-> fen]

\* main, UCI::new and Search::new
UciInit ==
    /\ BoardIdle
    /\ \E script \in UciScripts(MaxUciLines) :
        unit = [pc |-> "main", script |-> script, handled |-> <<>>,
                typed |-> script, stdin |-> <<>>, stdout |-> <<>>,
                to_engine |-> <<>>, to_comm |-> <<>>,
                uci |-> "try_recv_stdin", exit |-> FALSE, panic |-> "",
                engine |-> "main_loop", quit |-> FALSE, return_best_move |-> FALSE,
                board |-> STARTING_POSITION_FEN,
                isready |-> 0, positions |-> <<>>, boards_set |-> <<>>,
                uci_handled_quit |-> FALSE, engine_handled_quit |-> FALSE]

\* the process runs until the main thread returns or panics
ProcessRuns(u) == u.uci \in {"try_recv_stdin", "try_recv_engine_message"}

\* Sender::send on the channel to the engine: an Err, which the front-end
\* drops, once the engine has dropped its receiver
engine_sender_send(u, message) ==
    IF u.engine = "main_loop" THEN [u EXCEPT !.to_engine = Append(@, message)] ELSE u

uci_panic(u, message) == [u EXCEPT !.uci = "panicked", !.panic = message]

\* UCI::handle_incoming_stdin
handle_incoming_stdin(u, line) ==
    CASE line.command = "uci" ->
           [u EXCEPT !.stdout = @ \o <<"id name", "id author", "uciok">>]
      [] line.command = "isready" ->
           [engine_sender_send(u, Message("IsReady", "", <<>>)) EXCEPT !.isready = @ + 1]
      [] line.command = "debug" ->
           engine_sender_send(u, Message("Debug", "", <<>>))
      [] line.command = "position" ->
           LET stopped == engine_sender_send(u, Message("Stop", "TerminateSearch", <<>>))
               fen == IF line.args[1] = "fen" THEN line.fen ELSE STARTING_POSITION_FEN
           IN IF line.args[1] \notin {"fen", "startpos"}
              THEN uci_panic(stopped, "Invalid position command recieved")
              ELSE [engine_sender_send(stopped, Message("Position", "", fen))
                      EXCEPT !.positions = Append(@, fen)]
      [] line.command = "go" ->
           IF \E i \in 1..Len(line.args) : line.args[i] = "ponder" THEN u
           ELSE IF \E i \in 1..Len(line.args) : line.args[i] # "infinite"
           THEN uci_panic(u, "Unexpected go argument")
           ELSE engine_sender_send(u, Message("Go", "", <<>>))
      [] line.command = "stop" ->
           engine_sender_send(u, Message("Stop", "ReturnBestMove", <<>>))
      [] line.command = "ucinewgame" ->
           engine_sender_send(
               engine_sender_send(u, Message("Stop", "TerminateSearch", <<>>)),
               Message("UCINewGame", "", <<>>))
      [] line.command \in {"quit", "exit"} ->
           [engine_sender_send(u, Message("Quit", "", <<>>))
              EXCEPT !.exit = TRUE, !.uci_handled_quit = TRUE]
      [] OTHER -> uci_panic(u, "Unexpected UCI command")

\* UCI::handle_incoming_engine_message
handle_incoming_engine_message(u, message) ==
    IF message.kind = "ReadyOk" THEN [u EXCEPT !.stdout = Append(@, "readyok")]
    ELSE uci_panic(u, "not yet implemented")

\* the stdin thread: the next line typed goes into the channel
StdinThread ==
    /\ unit.pc = "main"
    /\ ProcessRuns(unit)
    /\ unit.typed # <<>>
    /\ unit' = [unit EXCEPT !.typed = Tail(@), !.stdin = Append(@, Head(unit.typed))]
    /\ UNCHANGED boardvars

\* UCI::try_recv_stdin, the first half of an iteration of UCI::main_loop
try_recv_stdin ==
    /\ unit.pc = "main"
    /\ unit.uci = "try_recv_stdin"
    /\ LET handled ==
             IF unit.stdin = <<>> THEN unit
             ELSE handle_incoming_stdin(
                      [unit EXCEPT !.stdin = Tail(@),
                                   !.handled = Append(@, Head(unit.stdin).command)],
                      Head(unit.stdin))
       IN unit' = IF handled.uci = "panicked" THEN handled
                  ELSE [handled EXCEPT !.uci = "try_recv_engine_message"]
    /\ UNCHANGED boardvars

\* UCI::try_recv_engine_message, the second half, and the test of the loop:
\* a message if one is queued, Disconnected if none is and the engine has
\* dropped its sender
try_recv_engine_message ==
    /\ unit.pc = "main"
    /\ unit.uci = "try_recv_engine_message"
    /\ LET received ==
             IF unit.to_comm # <<>>
             THEN handle_incoming_engine_message([unit EXCEPT !.to_comm = Tail(@)],
                                                 Head(unit.to_comm))
             ELSE IF unit.engine # "main_loop"
             THEN uci_panic(unit, "Disconnected from reciever")
             ELSE unit
       IN unit' = IF received.uci = "panicked" THEN received
                  ELSE [received EXCEPT !.uci = IF received.exit THEN "returned"
                                                 ELSE "try_recv_stdin"]
    /\ UNCHANGED boardvars

\* Search::handle_message; an Err of Board::from_fen is unwrapped by
\* try_recv_message, a panic of the engine thread
handle_message(u, message) ==
    CASE message.kind = "Stop" ->
           [u EXCEPT !.quit = TRUE,
                     !.return_best_move = @ \/ message.option = "ReturnBestMove"]
      [] message.kind = "Go" -> u
      [] message.kind = "Quit" -> [u EXCEPT !.quit = TRUE, !.engine_handled_quit = TRUE]
      [] message.kind = "Debug" -> u
      [] message.kind = "IsReady" -> [u EXCEPT !.to_comm = Append(@, Message("ReadyOk", "", <<>>))]
      [] message.kind = "Position" ->
           IF from_fen(message.fen).ok
           THEN [u EXCEPT !.quit = TRUE, !.board = message.fen,
                          !.boards_set = Append(@, message.fen)]
           ELSE [u EXCEPT !.quit = TRUE, !.engine = "panicked"]
      [] message.kind = "UCINewGame" ->
           [u EXCEPT !.quit = TRUE, !.board = STARTING_POSITION_FEN]

\* Search::try_recv_message, an iteration of Search::main_loop
try_recv_message ==
    /\ unit.pc = "main"
    /\ ProcessRuns(unit)
    /\ unit.engine = "main_loop"
    /\ ~unit.quit
    /\ unit.to_engine # <<>>
    /\ unit' = handle_message([unit EXCEPT !.to_engine = Tail(@)], Head(unit.to_engine))
    /\ UNCHANGED boardvars

\* Search::main_loop returns once quit is set: the thread ends and drops the
\* Search, with it the engine's ends of both channels
main_loop_returns ==
    /\ unit.pc = "main"
    /\ ProcessRuns(unit)
    /\ unit.engine = "main_loop"
    /\ unit.quit
    /\ unit' = [unit EXCEPT !.engine = "dropped", !.to_engine = <<>>]
    /\ UNCHANGED boardvars

UciNext ==
    \/ StdinThread
    \/ try_recv_stdin
    \/ try_recv_engine_message
    \/ try_recv_message
    \/ main_loop_returns

SpecUci == UciInit /\ [][UciNext]_vars

\* each of the three threads spins in a loop of its own and is scheduled again
\* and again
SpecUciLive ==
    /\ SpecUci
    /\ WF_vars(StdinThread)
    /\ WF_vars(try_recv_stdin \/ try_recv_engine_message)
    /\ WF_vars(try_recv_message \/ main_loop_returns)

ReadyOkPrinted == Cardinality({i \in 1..Len(unit.stdout) : unit.stdout[i] = "readyok"})

\* C27: for every `position startpos` or `position fen <FEN>` the front-end
\* handles before `quit`, the engine thread eventually processes the Position
\* message and replaces its board with the position of that command; the
\* Stop sent just before it does not prevent that, and the engine thread
\* keeps running until it handles Quit
C27_PositionProcessed ==
    /\ \A k \in 1..MaxUciLines :
          (Len(unit.positions) >= k)
             ~> (Len(unit.boards_set) >= k /\ unit.boards_set[k] = unit.positions[k])
    /\ [](unit.engine # "main_loop" => unit.engine_handled_quit)

\* no Position message is ever processed: the engine never sets a board
C27_NoPositionProcessed == unit.boards_set = <<>> /\ unit.board = STARTING_POSITION_FEN

\* the engine thread has ended on the Stop of a `position` line, without
\* having handled Quit, and the front-end goes on
C27_StoppedByPosition ==
    /\ unit.positions # <<>>
    /\ unit.engine = "dropped"
    /\ ~unit.engine_handled_quit
    /\ ProcessRuns(unit)

\* C28: every `isready` the front-end receives before `quit` is eventually
\* answered with exactly one `readyok`, whatever commands were handled
\* before it, and the front-end never observes a disconnected engine channel
\* before it has handled `quit`
C28_IsReadyAnswered ==
    /\ \A k \in 1..MaxUciLines : (unit.isready >= k) ~> (ReadyOkPrinted >= k)
    /\ [](ReadyOkPrinted <= unit.isready)
    /\ [](unit.panic = "Disconnected from reciever" => unit.uci_handled_quit)

\* never more answers than questions
C28_NoSpareReadyOk == ReadyOkPrinted <= unit.isready

\* the front-end panics on the disconnected channel only after it has handled
\* a line that sends Stop or Quit
C28_DisconnectedAfterStop ==
    unit.panic = "Disconnected from reciever" =>
        \E i \in 1..Len(unit.handled) :
            unit.handled[i] \in {"position", "stop", "ucinewgame", "quit"}

\* with no line typed that sends Stop or Quit, every isready is answered
C28_AnsweredWithoutStop ==
    \A k \in 1..MaxUciLines :
        (/\ unit.isready >= k
         /\ \A i \in 1..Len(unit.script) :
               unit.script[i].command \notin {"position", "stop", "ucinewgame", "quit"})
           ~> (ReadyOkPrinted >= k)

\* an isready handled after a `position` line, the engine gone, no answer
C28_Unanswered ==
    /\ unit.isready > ReadyOkPrinted
    /\ unit.engine = "dropped"
    /\ unit.to_comm = <<>>
    /\ ~unit.uci_handled_quit
    /\ unit.panic = "Disconnected from reciever"

====
